---- MODULE Spec2Model ----
(***************************************************************************)
(* Orac Knowledge Graph worker (src/worker/src/index.js): the graph        *)
(* document kept under one key of the key-value store, the per-identity    *)
(* rate-limit counters kept in the same store, and the request handlers    *)
(* (REST, MCP tools/call, register-agent) that read and replace them.      *)
(* A handler is split at its awaits on the store: every store get and put  *)
(* is one step, so that concurrent requests interleave as the worker       *)
(* allows.                                                                 *)
(***************************************************************************)
EXTENDS Integers, Sequences, FiniteSets, TLC

VARIABLES
  now,      \* the wall clock (seconds); it stands still in the request model
  kvGraph,  \* the value stored under GRAPH_KEY: <<>> when absent, else <<doc>>
  kvRate,   \* the live "rate:ip:operation" keys: key -> [count, exp]
  pc,       \* per request slot: idle, rl_get, rl_put, load, save, done
  req,      \* per request slot: the request (entry point, caller, body)
  seen,     \* per request slot: the counter value checkRateLimit has read
  rate,     \* per request slot: the result of checkRateLimit
  loaded,   \* per request slot: <<>>, or <<the graph loadGraph returned>>
  local,    \* per request slot: the in-memory graph about to be saved
  resp,     \* per request slot: the response kind
  wrote,    \* per request slot: the request has written the graph document
  fault,    \* per request slot: the store access that failed, or "none"
  started,  \* number of requests started so far
  ticks,    \* number of clock advances so far
  rlOp,     \* sequential limiter runs: the operation class being called
  rlLast,   \* sequential limiter runs: the result of the latest call
  streak,   \* sequential limiter runs: calls made since the counter was absent
  winStart, \* sequential limiter runs: instant of the first increment of the counter
  opReq,    \* sequential runs: the latest request (or limiter call)
  opOut,    \* sequential runs: what it returned
  kvBefore, \* sequential runs: the store as the latest request found it
  ops       \* sequential runs: number of requests made so far

vars == <<now, kvGraph, kvRate, pc, req, seen, rate, loaded, local, resp, wrote,
          fault, started, ticks, rlOp, rlLast, streak, winStart,
          opReq, opOut, kvBefore, ops>>

reqVars == <<pc, req, seen, rate, loaded, local, resp, wrote, fault, started>>
rlVars  == <<rlOp, rlLast, streak, winStart>>
seqVars == <<opReq, opOut, kvBefore, ops>>

----------------------------------------------------------------------------
\* Bounds of the model

MaxSlots   == 2   \* requests in flight at the same time
MaxStarted == 2   \* requests started in one behaviour
MaxTicksRL == 3   \* sequential limiter: clock advances in one behaviour
MaxOver    == 2   \* sequential limiter: calls made beyond the limit
MaxCallsIds == 3  \* limiter calls of the two identities in one behaviour
MaxOps      == 2  \* sequential requests in one behaviour
MaxTicksSeq == 1  \* sequential requests: clock advances in one behaviour
MaxAgeings == 2   \* ageings of the observation in the decay run
MaxSigSteps == 3  \* attestations and forgeries in one behaviour
MaxCallsRace == 3 \* overlapping limiter calls in one behaviour
MaxTicksRace == 1 \* overlapping limiter calls: clock advances in one behaviour

----------------------------------------------------------------------------
\* Program constants

LimitEntities     == 10
LimitObservations == 50
LimitRelations    == 20
LimitReads        == 1000
LimitDefault      == 100
RateTtl           == 3600
RetryAfterSeconds == 3600   \* 'Retry-After': '3600'
BypassLimit       == 9999
NoTime            == -1     \* a null (or empty) timestamp
DECAY_HALF_LIFE_DAYS == 30
ACCESS_BOOST_TENTHS  == 1   \* ACCESS_BOOST = 0.1
RECENCY_BOOST_DAYS   == 7
MIN_RELEVANCE        == 10000   \* 0.01 in millionths
One                  == 1000000 \* the score 1.0 in millionths
HoursPerDay          == 24
SecondsPerHour       == 3600

OracIP  == "139.68.251.208"
OtherIP == "203.0.113.7"

RATE_LIMITS(operation) ==
  CASE operation = "entities"     -> LimitEntities
    [] operation = "observations" -> LimitObservations
    [] operation = "relations"    -> LimitRelations
    [] operation = "reads"        -> LimitReads
    [] OTHER                      -> LimitDefault

----------------------------------------------------------------------------
\* The key-value store

\* a plausible slip: one counter per caller, whatever the class
RateKeyPerCaller(ip, operation) == <<"rate", ip, "">>

RateKey(ip, operation) == <<"rate", ip, operation>>

\* KG_STORE.get(key) of a counter: 0 stands for null (absent or expired)
KvGetCount(store, key, t) ==
  IF key \in DOMAIN store /\ store[key].exp > t THEN store[key].count ELSE 0

\* KG_STORE.put(key, value, { expirationTtl }): the key expires ttl seconds
\* after this put
KvPutCount(store, key, value, ttl, t) ==
  [k \in (DOMAIN store) \cup {key} |->
     IF k = key THEN [count |-> value, exp |-> t + ttl] ELSE store[k]]

\* the store drops the keys whose expiration has passed
KvExpire(store, t) ==
  [k \in {j \in DOMAIN store : store[j].exp > t} |-> store[k]]

----------------------------------------------------------------------------
\* Rate limiting

NoRate == [returned |-> FALSE, allowed |-> FALSE, remaining |-> 0, limit |-> 0]

RateResult(allowed, remaining, limit) ==
  [returned |-> TRUE, allowed |-> allowed, remaining |-> remaining, limit |-> limit]

\* a plausible slip: > for >=
RateDeniedOffByOne(count, limit) == count # 0 /\ count > limit

\* the test that denies a call: count && parseInt(count) >= limit
RateDenied(count, limit) == count # 0 /\ count >= limit

\* a plausible slip: a failure of the store is caught and the call let through
checkRateLimitGetFailOpen(ok, store, ip, operation, t) ==
  LET count == KvGetCount(store, RateKey(ip, operation), t)
      limit == RATE_LIMITS(operation) IN
  IF ip = OracIP
  THEN [next |-> "return", count |-> 0,
        result |-> RateResult(TRUE, BypassLimit, BypassLimit)]
  ELSE IF ~ok
  THEN [next |-> "return", count |-> 0, result |-> RateResult(TRUE, limit, limit)]
  ELSE IF RateDenied(count, limit)
  THEN [next |-> "return", count |-> count, result |-> RateResult(FALSE, 0, limit)]
  ELSE [next |-> "put", count |-> count, result |-> NoRate]

\* checkRateLimit up to the answer of its KG_STORE.get; ok is whether the
\* store answered. next: "return" (with result), "put" (go on to the put
\* with the count read) or "throw"
checkRateLimitGet(ok, store, ip, operation, t) ==
  LET count == KvGetCount(store, RateKey(ip, operation), t)
      limit == RATE_LIMITS(operation) IN
  IF ip = OracIP
  THEN [next |-> "return", count |-> 0,
        result |-> RateResult(TRUE, BypassLimit, BypassLimit)]
  ELSE IF ~ok
  THEN [next |-> "throw", count |-> 0, result |-> NoRate]
  ELSE IF RateDenied(count, limit)
  THEN [next |-> "return", count |-> count, result |-> RateResult(FALSE, 0, limit)]
  ELSE [next |-> "put", count |-> count, result |-> NoRate]

\* a plausible slip: remaining computed from the count that was read
checkRateLimitPutStale(ok, store, ip, operation, count, t) ==
  LET limit == RATE_LIMITS(operation)
      newCount == IF count # 0 THEN count + 1 ELSE 1 IN
  IF ~ok
  THEN [next |-> "throw", store |-> store, result |-> NoRate]
  ELSE [next |-> "return",
        store |-> KvPutCount(store, RateKey(ip, operation), newCount, RateTtl, t),
        result |-> RateResult(TRUE, limit - count, limit)]

\* checkRateLimit from its KG_STORE.put on, count being what the get returned
checkRateLimitPut(ok, store, ip, operation, count, t) ==
  LET limit == RATE_LIMITS(operation)
      newCount == IF count # 0 THEN count + 1 ELSE 1 IN
  IF ~ok
  THEN [next |-> "throw", store |-> store, result |-> NoRate]
  ELSE [next |-> "return",
        store |-> KvPutCount(store, RateKey(ip, operation), newCount, RateTtl, t),
        result |-> RateResult(TRUE, limit - newCount, limit)]

\* checkRateLimit of the second copy of the worker in index.js (version
\* 2.0.0), up to the answer of its get: it has no bypass
checkRateLimitGetSecondCopy(ok, store, ip, operation, t) ==
  LET count == KvGetCount(store, RateKey(ip, operation), t)
      limit == RATE_LIMITS(operation) IN
  IF ~ok
  THEN [next |-> "throw", count |-> 0, result |-> NoRate]
  ELSE IF RateDenied(count, limit)
  THEN [next |-> "return", count |-> count, result |-> RateResult(FALSE, 0, limit)]
  ELSE [next |-> "put", count |-> count, result |-> NoRate]

\* a plausible slip: a denied call puts the counter back, with a new lifetime
checkRateLimitRefresh(store, ip, operation, t) ==
  LET g == checkRateLimitGet(TRUE, store, ip, operation, t) IN
  IF g.next = "put"
  THEN checkRateLimitPut(TRUE, store, ip, operation, g.count, t)
  ELSE [next |-> g.next,
        store |-> IF g.result.allowed THEN store
                  ELSE KvPutCount(store, RateKey(ip, operation), g.count, RateTtl, t),
        result |-> g.result]

\* checkRateLimit run without interruption against a store that answers
checkRateLimit(store, ip, operation, t) ==
  LET g == checkRateLimitGet(TRUE, store, ip, operation, t) IN
  IF g.next = "put"
  THEN checkRateLimitPut(TRUE, store, ip, operation, g.count, t)
  ELSE [next |-> g.next, store |-> store, result |-> g.result]

----------------------------------------------------------------------------
\* The graph document

EmptyGraph == [entities |-> <<>>, relations |-> <<>>]

loadGraph(kv) == IF kv = <<>> THEN EmptyGraph ELSE kv[1]

\* a store that would refuse a stale write: the stored graph is kept when it
\* holds more entities or relations than the graph being saved
saveGraphUnlessStale(kv, graph) ==
  IF /\ kv # <<>>
     /\ \/ Len(kv[1].entities) > Len(graph.entities)
        \/ Len(kv[1].relations) > Len(graph.relations)
  THEN kv
  ELSE <<graph>>

\* KG_STORE.put(GRAPH_KEY, JSON.stringify(graph)): the stored value is
\* replaced whatever it was
saveGraph(kv, graph) == <<graph>>

----------------------------------------------------------------------------
\* Graph helpers

RECURSIVE TrimLeft(_)
TrimLeft(s) ==
  IF Len(s) > 0 /\ SubSeq(s, 1, 1) = " " THEN TrimLeft(SubSeq(s, 2, Len(s))) ELSE s

RECURSIVE TrimRight(_)
TrimRight(s) ==
  IF Len(s) > 0 /\ SubSeq(s, Len(s), Len(s)) = " "
  THEN TrimRight(SubSeq(s, 1, Len(s) - 1)) ELSE s

\* String.prototype.trim
Trim(s) == TrimRight(TrimLeft(s))

\* a stored observation, as every handler builds it
NewObs(text, observed_at, expires_at) ==
  [text |-> text, observed_at |-> observed_at, expires_at |-> expires_at,
   last_accessed |-> NoTime, access_count |-> 0, relevance |-> 1]

\* what `o.text || o` yields for an object without text: the object itself
ObjectAsText == "[object Object]"

\* graph.entities.find(e => e.name === name): the first index, 0 when none
EntityIndex(graph, name) ==
  IF \E i \in 1..Len(graph.entities) : graph.entities[i].name = name
  THEN CHOOSE i \in 1..Len(graph.entities) :
         /\ graph.entities[i].name = name
         /\ \A j \in 1..(i - 1) : graph.entities[j].name # name
  ELSE 0

HasEntity(graph, name) == EntityIndex(graph, name) # 0

HasRelation(graph, source, relation, target) ==
  \E i \in 1..Len(graph.relations) :
    /\ graph.relations[i].source = source
    /\ graph.relations[i].relation = relation
    /\ graph.relations[i].target = target

NewRelation(type, source, relation, target, t, expires_at) ==
  [type |-> type, source |-> source, relation |-> relation, target |-> target,
   created |-> t, expires_at |-> expires_at]

\* the outcome of a handler once it holds the graph: the response kind and,
\* when save is TRUE, the graph it goes on to save
Outcome(kind, save, graph) == [kind |-> kind, save |-> save, graph |-> graph]

----------------------------------------------------------------------------
\* REST handlers, from the loaded graph on

\* a plausible slip: the supplied object is spread into the stored one
CreateEntityObsSpread(o, t) ==
  IF o.str
  THEN NewObs(o.text, t, NoTime)
  ELSE [text |-> IF o.text # "" THEN o.text ELSE ObjectAsText,
        observed_at |-> IF o.observed_at # NoTime THEN o.observed_at ELSE t,
        expires_at |-> o.expires_at, last_accessed |-> o.last_accessed,
        access_count |-> o.access_count, relevance |-> o.relevance]

\* handleCreateEntity: one supplied observation normalised
CreateEntityObs(o, t) ==
  IF o.str
  THEN NewObs(o.text, t, NoTime)
  ELSE NewObs(IF o.text # "" THEN o.text ELSE ObjectAsText,
              IF o.observed_at # NoTime THEN o.observed_at ELSE t,
              o.expires_at)

handleCreateEntityValid(body) == body.name # "" /\ body.entityType # ""

\* a plausible slip: the existing entity is replaced by the new one
handleCreateEntityReplace(graph, body, t) ==
  LET e == [type |-> "entity", name |-> body.name, entityType |-> body.entityType,
            observations |-> [i \in 1..Len(body.observations) |->
                                CreateEntityObs(body.observations[i], t)],
            created |-> t, updated |-> t] IN
  IF HasEntity(graph, body.name)
  THEN Outcome("Created", TRUE,
               [graph EXCEPT !.entities[EntityIndex(graph, body.name)] = e])
  ELSE Outcome("Created", TRUE, [graph EXCEPT !.entities = Append(@, e)])

handleCreateEntity(graph, body, t) ==
  IF HasEntity(graph, body.name)
  THEN Outcome("Conflict", FALSE, graph)
  ELSE Outcome("Created", TRUE,
         [graph EXCEPT !.entities = Append(@,
            [type |-> "entity", name |-> body.name, entityType |-> body.entityType,
             observations |-> [i \in 1..Len(body.observations) |->
                                 CreateEntityObs(body.observations[i], t)],
             created |-> t, updated |-> t])])

handleAddObservationValid(body) == body.name # "" /\ body.observation # ""

\* a plausible slip: the observation is added and updated is left as it was
handleAddObservationStale(graph, body, t) ==
  LET i == EntityIndex(graph, body.name) IN
  IF i = 0
  THEN Outcome("NotFound", FALSE, graph)
  ELSE Outcome("OK", TRUE,
         [graph EXCEPT !.entities[i].observations =
                          Append(@, NewObs(body.observation, t, body.expires_at))])

handleAddObservation(graph, body, t) ==
  LET i == EntityIndex(graph, body.name) IN
  IF i = 0
  THEN Outcome("NotFound", FALSE, graph)
  ELSE Outcome("OK", TRUE,
         [graph EXCEPT !.entities[i].observations =
                          Append(@, NewObs(body.observation, t, body.expires_at)),
                       !.entities[i].updated = t])

handleCreateRelationValid(body) ==
  body.source # "" /\ body.relation # "" /\ body.target # ""

\* a plausible slip: the relation is appended and saved before the duplicate
\* check answers Conflict
handleCreateRelationSaveFirst(graph, body, t) ==
  LET g == [graph EXCEPT !.relations = Append(@,
              NewRelation("relation", body.source, body.relation, body.target,
                          t, body.expires_at))] IN
  IF ~HasEntity(graph, body.source) \/ ~HasEntity(graph, body.target)
  THEN Outcome("NotFound", FALSE, graph)
  ELSE IF HasRelation(graph, body.source, body.relation, body.target)
  THEN Outcome("Conflict", TRUE, g)
  ELSE Outcome("Created", TRUE, g)

\* a plausible slip: the duplicate check is left out
handleCreateRelationNoDupCheck(graph, body, t) ==
  IF ~HasEntity(graph, body.source) \/ ~HasEntity(graph, body.target)
  THEN Outcome("NotFound", FALSE, graph)
  ELSE Outcome("Created", TRUE,
         [graph EXCEPT !.relations = Append(@,
            NewRelation("relation", body.source, body.relation, body.target,
                        t, body.expires_at))])

handleCreateRelation(graph, body, t) ==
  IF ~HasEntity(graph, body.source) \/ ~HasEntity(graph, body.target)
  THEN Outcome("NotFound", FALSE, graph)
  ELSE IF HasRelation(graph, body.source, body.relation, body.target)
  THEN Outcome("Conflict", FALSE, graph)
  ELSE Outcome("Created", TRUE,
         [graph EXCEPT !.relations = Append(@,
            NewRelation("relation", body.source, body.relation, body.target,
                        t, body.expires_at))])

----------------------------------------------------------------------------
\* MCP tools/call, from the loaded graph on (the tool result is always a text)

\* create_entity stores each supplied item as the text of an observation
McpObs(o, t) == NewObs(IF o.str THEN o.text ELSE ObjectAsText, t, NoTime)

\* a plausible slip: create_entity without its duplicate check
McpCreateEntityNoCheck(graph, args, t) ==
  Outcome("Created", TRUE,
    [graph EXCEPT !.entities = Append(@,
       [type |-> "entity", name |-> args.name, entityType |-> args.entityType,
        observations |-> [i \in 1..Len(args.observations) |->
                            McpObs(args.observations[i], t)],
        created |-> t, updated |-> t])])

McpCreateEntity(graph, args, t) ==
  IF HasEntity(graph, args.name)
  THEN Outcome("Conflict", FALSE, graph)
  ELSE Outcome("Created", TRUE,
         [graph EXCEPT !.entities = Append(@,
            [type |-> "entity", name |-> args.name, entityType |-> args.entityType,
             observations |-> [i \in 1..Len(args.observations) |->
                                 McpObs(args.observations[i], t)],
             created |-> t, updated |-> t])])

\* a plausible slip: the entity list is rebuilt from the one entity touched
McpAddObservationAlone(graph, args, t) ==
  LET i == EntityIndex(graph, args.name) IN
  IF i = 0
  THEN Outcome("NotFound", FALSE, graph)
  ELSE Outcome("OK", TRUE,
         [graph EXCEPT !.entities =
            <<[graph.entities[i] EXCEPT
                 !.observations = Append(@, NewObs(args.observation, t, args.expires_at)),
                 !.updated = t]>>])

McpAddObservation(graph, args, t) ==
  LET i == EntityIndex(graph, args.name) IN
  IF i = 0
  THEN Outcome("NotFound", FALSE, graph)
  ELSE Outcome("OK", TRUE,
         [graph EXCEPT !.entities[i].observations =
                          Append(@, NewObs(args.observation, t, args.expires_at)),
                       !.entities[i].updated = t])

McpCreateRelation(graph, args, t) ==
  IF ~HasEntity(graph, args.source) \/ ~HasEntity(graph, args.target)
  THEN Outcome("NotFound", FALSE, graph)
  ELSE Outcome("Created", TRUE,
         [graph EXCEPT !.relations = Append(@,
            NewRelation("relation", args.source, args.relation, args.target,
                        t, args.expires_at))])

----------------------------------------------------------------------------
\* register-agent

handleRegisterAgentValid(body) == body.name # "" /\ Trim(body.name) # ""

\* the observation texts built from the profile fields, in the code's order
RegisterObservations(body) ==
     (IF body.description # "" THEN <<body.description>> ELSE <<>>)
  \o (IF body.twitter # "" THEN <<"Twitter: " \o body.twitter>> ELSE <<>>)
  \o (IF body.moltbook # "" THEN <<"Moltbook: " \o body.moltbook>> ELSE <<>>)
  \o (IF body.platform # "" THEN <<"Runs on " \o body.platform>> ELSE <<>>)
  \o (IF body.verified_via # "" THEN <<"Verification: " \o body.verified_via>> ELSE <<>>)

\* a plausible slip: every text is pushed
RECURSIVE PushAll(_, _, _)
PushAll(observations, texts, t) ==
  IF texts = <<>> THEN observations
  ELSE PushAll(Append(observations, NewObs(Head(texts), t, NoTime)), Tail(texts), t)

\* the update loop: each text is pushed unless an observation already has it
RECURSIVE PushMissing(_, _, _)
PushMissing(observations, texts, t) ==
  IF texts = <<>> THEN observations
  ELSE PushMissing(
         IF \E i \in 1..Len(observations) : observations[i].text = Head(texts)
         THEN observations
         ELSE Append(observations, NewObs(Head(texts), t, NoTime)),
         Tail(texts), t)

RegisterEntity(graph, body, t) ==
  LET name == Trim(body.name)
      texts == RegisterObservations(body)
      i == EntityIndex(graph, name) IN
  IF i # 0
  THEN [graph EXCEPT !.entities[i].observations = PushMissing(@, texts, t),
                     !.entities[i].updated = t]
  ELSE [graph EXCEPT !.entities = Append(@,
          [type |-> "", name |-> name, entityType |-> "agent",
           observations |-> [k \in 1..Len(texts) |-> NewObs(texts[k], t, NoTime)],
           created |-> t, updated |-> t])]

HasLink(graph, source, target) ==
  \E i \in 1..Len(graph.relations) :
    graph.relations[i].source = source /\ graph.relations[i].target = target

\* the relation to a fixed platform entity (Twitter, Moltbook)
RegisterActiveOn(graph, body, field, target, t) ==
  IF field # "" /\ ~HasLink(graph, Trim(body.name), target)
  THEN [graph EXCEPT !.relations = Append(@,
          NewRelation("", Trim(body.name), "active_on", target, t, NoTime))]
  ELSE graph

RegisterRunsOn(graph, body, t) ==
  IF /\ body.platform # ""
     /\ HasEntity(graph, body.platform)
     /\ ~HasRelation(graph, Trim(body.name), "runs_on", body.platform)
  THEN [graph EXCEPT !.relations = Append(@,
          NewRelation("", Trim(body.name), "runs_on", body.platform, t, NoTime))]
  ELSE graph

handleRegisterAgent(graph, body, t) ==
  LET g1 == RegisterEntity(graph, body, t)
      g2 == RegisterActiveOn(g1, body, body.twitter, "Twitter", t)
      g3 == RegisterActiveOn(g2, body, body.moltbook, "Moltbook", t)
      g4 == RegisterRunsOn(g3, body, t) IN
  Outcome("OK", TRUE, g4)

----------------------------------------------------------------------------
\* Observation helpers and FadeMem scoring. Instants are seconds; a score is
\* a whole number of millionths. 0.5^x is exact at whole x and interpolated
\* linearly between two whole x, on ages taken in whole hours.

normalizeObs(obs) ==
  [text |-> obs.text, observed_at |-> obs.observed_at, expires_at |-> obs.expires_at,
   last_accessed |-> obs.last_accessed, access_count |-> obs.access_count,
   relevance |-> obs.relevance]

\* a plausible slip: < for <=
isExpiredStrict(obs, t) ==
  LET o == normalizeObs(obs) IN o.expires_at # NoTime /\ o.expires_at < t

isExpired(obs, t) ==
  LET o == normalizeObs(obs) IN o.expires_at # NoTime /\ o.expires_at <= t

obsText(obs) == obs.text

Hours(seconds) == seconds \div SecondsPerHour

HalfLifeHours == DECAY_HALF_LIFE_DAYS * HoursPerDay

RecencyHours == RECENCY_BOOST_DAYS * HoursPerDay

RECURSIVE Halve(_, _)
Halve(x, k) == IF k = 0 THEN x ELSE Halve(x \div 2, k - 1)

\* a plausible slip: only whole half-lives count
DecayStep(ageHours) ==
  IF ageHours >= 0 THEN Halve(One, ageHours \div HalfLifeHours) ELSE One

\* Math.pow(0.5, ageDays / DECAY_HALF_LIFE_DAYS); an observation dated after
\* now scores above 1 (capped at 2 here)
Decay(ageHours) ==
  IF ageHours >= 0
  THEN LET k == ageHours \div HalfLifeHours
           r == ageHours % HalfLifeHours IN
       (Halve(One, k) * (2 * HalfLifeHours - r)) \div (2 * HalfLifeHours)
  ELSE LET r == IF -ageHours < HalfLifeHours THEN -ageHours ELSE HalfLifeHours IN
       (One * (HalfLifeHours + r)) \div HalfLifeHours

Max(a, b) == IF a >= b THEN a ELSE b

\* recencyBoost applied to a score: 1 + (1 - lastAccessDays / RECENCY_BOOST_DAYS) * 0.5,
\* on sixteenths of the score's units to stay within 32 bits
RecencyBoosted(score, lastAccessHours) ==
  (((score \div 16) * (3 * RecencyHours - lastAccessHours)) \div (2 * RecencyHours)) * 16

\* a plausible slip: the score is not held at MIN_RELEVANCE
decayScoreNoFloor(obs, t) ==
  LET o == normalizeObs(obs)
      observedAt == IF o.observed_at # NoTime THEN o.observed_at ELSE t
      decay == Decay(Hours(t - observedAt))
      boosted == (o.relevance * decay * (10 + o.access_count * ACCESS_BOOST_TENTHS)) \div 10
      lastAccessHours == Hours(t - o.last_accessed)
      recent == o.last_accessed # NoTime /\ lastAccessHours < RecencyHours IN
  IF recent THEN RecencyBoosted(boosted, lastAccessHours) ELSE boosted

\* a plausible slip: an absent observed_at is not taken as now
decayScoreNoDefault(obs, t) ==
  LET o == normalizeObs(obs)
      decay == Decay(Hours(t - o.observed_at))
      boosted == (o.relevance * decay * (10 + o.access_count * ACCESS_BOOST_TENTHS)) \div 10
      lastAccessHours == Hours(t - o.last_accessed)
      recent == o.last_accessed # NoTime /\ lastAccessHours < RecencyHours IN
  Max(MIN_RELEVANCE,
      IF recent THEN RecencyBoosted(boosted, lastAccessHours) ELSE boosted)

decayScore(obs, t) ==
  LET o == normalizeObs(obs)
      observedAt == IF o.observed_at # NoTime THEN o.observed_at ELSE t
      decay == Decay(Hours(t - observedAt))
      boosted == (o.relevance * decay * (10 + o.access_count * ACCESS_BOOST_TENTHS)) \div 10
      lastAccessHours == Hours(t - o.last_accessed)
      recent == o.last_accessed # NoTime /\ lastAccessHours < RecencyHours IN
  Max(MIN_RELEVANCE,
      IF recent THEN RecencyBoosted(boosted, lastAccessHours) ELSE boosted)

\* parseFloat(x.toFixed(3)): a score rounded to thousandths
Fixed3(score) == (score + 500) \div 1000

----------------------------------------------------------------------------
\* Views of the graph

\* a plausible slip: every observation takes part, expired or not
getActiveObsAll(entity, t, includeExpired) == entity.observations

getActiveObs(entity, t, includeExpired) ==
  SelectSeq(entity.observations, LAMBDA o : includeExpired \/ ~isExpired(o, t))

\* a plausible slip: only the relations the entity is the source of
getActiveRelsOutgoing(graph, entityName, t, includeExpired) ==
  SelectSeq(graph.relations,
            LAMBDA r : /\ r.source = entityName
                       /\ includeExpired \/ r.expires_at = NoTime \/ r.expires_at > t)

getActiveRels(graph, entityName, t, includeExpired) ==
  SelectSeq(graph.relations,
            LAMBDA r : /\ r.source = entityName \/ r.target = entityName
                       /\ includeExpired \/ r.expires_at = NoTime \/ r.expires_at > t)

UpperCase == "ABCDEFGHIJKLMNOPQRSTUVWXYZ"
LowerCase == "abcdefghijklmnopqrstuvwxyz"

LowerChar(c) ==
  IF \E i \in 1..Len(UpperCase) : SubSeq(UpperCase, i, i) = c
  THEN LET i == CHOOSE i \in 1..Len(UpperCase) : SubSeq(UpperCase, i, i) = c IN
       SubSeq(LowerCase, i, i)
  ELSE c

RECURSIVE toLowerCase(_)
toLowerCase(s) ==
  IF Len(s) = 0 THEN s ELSE LowerChar(SubSeq(s, 1, 1)) \o toLowerCase(SubSeq(s, 2, Len(s)))

\* Array.prototype.join(' ')
RECURSIVE JoinSpace(_)
JoinSpace(strings) ==
  IF Len(strings) = 0 THEN ""
  ELSE IF Len(strings) = 1 THEN strings[1]
  ELSE strings[1] \o " " \o JoinSpace(Tail(strings))

\* String.prototype.includes
includes(s, q) == \E i \in 1..(Len(s) - Len(q) + 1) : SubSeq(s, i, i + Len(q) - 1) = q

\* the mean of a list of scores, kept as sum over n (0 over 1 when empty)
RECURSIVE SumOf(_)
SumOf(scores) == IF Len(scores) = 0 THEN 0 ELSE Head(scores) + SumOf(Tail(scores))

AvgScore(scores) ==
  IF Len(scores) > 0 THEN [sum |-> SumOf(scores), n |-> Len(scores)] ELSE [sum |-> 0, n |-> 1]

\* a.score < b.score
ScoreLess(a, b) == a.sum * b.n < b.sum * a.n

\* a plausible slip: a result goes before the results of equal score
RECURSIVE InsertBeforeEqual(_, _)
InsertBeforeEqual(sorted, r) ==
  IF Len(sorted) = 0 THEN <<r>>
  ELSE IF ~ScoreLess(r.score, Head(sorted).score) THEN <<r>> \o sorted
  ELSE <<Head(sorted)>> \o InsertBeforeEqual(Tail(sorted), r)

\* results.sort((a, b) => b.score - a.score), a stable sort: result r is put
\* after the results that do not score less
RECURSIVE InsertByScore(_, _)
InsertByScore(sorted, r) ==
  IF Len(sorted) = 0 THEN <<r>>
  ELSE IF ScoreLess(Head(sorted).score, r.score) THEN <<r>> \o sorted
  ELSE <<Head(sorted)>> \o InsertByScore(Tail(sorted), r)

RECURSIVE SortByScore(_)
SortByScore(results) ==
  IF Len(results) = 0 THEN results
  ELSE InsertByScore(SortByScore(SubSeq(results, 1, Len(results) - 1)),
                     results[Len(results)])

\* a plausible slip: the texts of all observations are searched, expired or not
SearchableAll(entity, t) ==
  toLowerCase(JoinSpace(<<entity.name, entity.entityType>>
                          \o [i \in 1..Len(entity.observations) |->
                                obsText(entity.observations[i])]))

\* searchNodes: the entity's searchable text
Searchable(entity, t) ==
  LET activeObs == getActiveObs(entity, t, FALSE) IN
  toLowerCase(JoinSpace(<<entity.name, entity.entityType>>
                          \o [i \in 1..Len(activeObs) |-> obsText(activeObs[i])]))

\* searchNodes: the result pushed for an entity
SearchResult(entity, t) ==
  LET activeObs == getActiveObs(entity, t, FALSE) IN
  [entity |-> entity,
   score |-> AvgScore([i \in 1..Len(activeObs) |-> decayScore(activeObs[i], t)])]

searchNodes(graph, query, t) ==
  LET q == toLowerCase(query)
      hits == SelectSeq(graph.entities, LAMBDA e : includes(Searchable(e, t), q)) IN
  SortByScore([i \in 1..Len(hits) |-> SearchResult(hits[i], t)])

formatEntity(entity, graph, t, includeExpired) ==
  LET activeObs == getActiveObs(entity, t, includeExpired)
      rels == getActiveRels(graph, entity.name, t, includeExpired) IN
  [name |-> entity.name,
   type |-> entity.entityType,
   observations |->
     [i \in 1..Len(activeObs) |->
        LET n == normalizeObs(activeObs[i]) IN
        [text |-> n.text,
         score |-> Fixed3(decayScore(activeObs[i], t)),
         observed_at |-> n.observed_at,
         expires_at |-> n.expires_at,
         expired |-> isExpired(activeObs[i], t),
         access_count |-> n.access_count]],
   relations |->
     [i \in 1..Len(rels) |->
        [direction |-> IF rels[i].source = entity.name THEN "outgoing" ELSE "incoming",
         relation |-> rels[i].relation,
         entity |-> IF rels[i].source = entity.name THEN rels[i].target ELSE rels[i].source,
         expires_at |-> rels[i].expires_at]],
   created |-> entity.created,
   updated |-> entity.updated]

----------------------------------------------------------------------------
\* Read handlers, from the loaded graph on: the response kind and its
\* payload; no read handler calls saveGraph (save is FALSE)

Reply(kind, view) == [kind |-> kind, view |-> view, save |-> FALSE, graph |-> EmptyGraph]

NoView == <<>>

handleSearch(graph, query, t) ==
  LET results == searchNodes(graph, query, t) IN
  Reply("OK",
        [query |-> query,
         count |-> Len(results),
         results |-> [i \in 1..Len(results) |->
                        [entity |-> formatEntity(results[i].entity, graph, t, FALSE),
                         score |-> Fixed3(results[i].score.sum \div results[i].score.n)]]])

\* a plausible slip: the documented access tracking, the read raising
\* access_count and setting last_accessed of what it returns and saving it
handleEntityTracking(graph, name, t) ==
  LET i == EntityIndex(graph, name) IN
  IF i = 0
  THEN Reply("NotFound", NoView)
  ELSE [kind |-> "OK",
        view |-> formatEntity(graph.entities[i], graph, t, FALSE),
        save |-> TRUE,
        graph |-> [graph EXCEPT !.entities[i].observations =
                     [k \in 1..Len(@) |->
                        IF isExpired(@[k], t) THEN @[k]
                        ELSE [@[k] EXCEPT !.access_count = @ + 1, !.last_accessed = t]]]]

handleEntity(graph, name, t) ==
  LET i == EntityIndex(graph, name) IN
  IF i = 0
  THEN Reply("NotFound", NoView)
  ELSE Reply("OK", formatEntity(graph.entities[i], graph, t, FALSE))

\* every stored observation, entity after entity
RECURSIVE FlatObs(_)
FlatObs(entities) ==
  IF Len(entities) = 0 THEN <<>> ELSE Head(entities).observations \o FlatObs(Tail(entities))

\* the number of entities of each type
TypeCounts(graph) ==
  [ty \in {graph.entities[i].entityType : i \in 1..Len(graph.entities)} |->
     Cardinality({i \in 1..Len(graph.entities) : graph.entities[i].entityType = ty})]

RelActive(r, t) == r.expires_at = NoTime \/ r.expires_at > t

handleStats(graph, t) ==
  LET allObs == FlatObs(graph.entities)
      activeObs == SelectSeq(allObs, LAMBDA o : ~isExpired(o, t))
      expiredObs == SelectSeq(allObs, LAMBDA o : isExpired(o, t))
      activeRels == SelectSeq(graph.relations, LAMBDA r : RelActive(r, t))
      avg == AvgScore([i \in 1..Len(activeObs) |-> decayScore(activeObs[i], t)]) IN
  Reply("OK",
        [entities |-> Len(graph.entities),
         relations |-> Len(activeRels),
         observations |-> [active |-> Len(activeObs), expired |-> Len(expiredObs)],
         decay |-> [avg_score |-> Fixed3(avg.sum \div avg.n),
                    half_life_days |-> DECAY_HALF_LIFE_DAYS],
         types |-> TypeCounts(graph)])

handleGraph(graph, t) ==
  LET activeRels == SelectSeq(graph.relations, LAMBDA r : RelActive(r, t)) IN
  Reply("OK",
        [entities |-> [i \in 1..Len(graph.entities) |->
                         formatEntity(graph.entities[i], graph, t, FALSE)],
         relations |-> [i \in 1..Len(activeRels) |->
                          [source |-> activeRels[i].source,
                           relation |-> activeRels[i].relation,
                           target |-> activeRels[i].target]]])

\* the MCP read tools answer with a text; its parts are kept apart here

\* the lines of an entity: its active observations with their scores
McpObsLines(entity, t) ==
  LET activeObs == getActiveObs(entity, t, FALSE) IN
  [i \in 1..Len(activeObs) |->
     [text |-> obsText(activeObs[i]), score |-> Fixed3(decayScore(activeObs[i], t))]]

\* the lines of its active relations: an arrow, the relation and the peer
McpRelLines(graph, name, t) ==
  LET rels == getActiveRels(graph, name, t, FALSE) IN
  [i \in 1..Len(rels) |->
     [arrow |-> IF rels[i].source = name THEN "to" ELSE "from",
      relation |-> rels[i].relation,
      entity |-> IF rels[i].source = name THEN rels[i].target ELSE rels[i].source]]

McpSearchNodes(graph, args, t) ==
  LET results == searchNodes(graph, args.query, t) IN
  IF Len(results) = 0
  THEN Reply("OK", "No results")
  ELSE Reply("OK",
         [i \in 1..Len(results) |->
            [entityType |-> results[i].entity.entityType,
             name |-> results[i].entity.name,
             score |-> Fixed3(results[i].score.sum \div results[i].score.n),
             observations |-> McpObsLines(results[i].entity, t),
             relations |-> McpRelLines(graph, results[i].entity.name, t)]])

McpReadEntity(graph, args, t) ==
  LET i == EntityIndex(graph, args.name) IN
  IF i = 0
  THEN Reply("NotFound", NoView)
  ELSE Reply("OK",
         [entityType |-> graph.entities[i].entityType,
          name |-> graph.entities[i].name,
          observations |-> McpObsLines(graph.entities[i], t),
          relations |-> McpRelLines(graph, args.name, t)])

McpReadGraph(graph, t) ==
  LET activeRels == SelectSeq(graph.relations, LAMBDA r : RelActive(r, t)) IN
  Reply("OK",
        [entities |-> Len(graph.entities),
         relations |-> Len(activeRels),
         lines |-> [i \in 1..Len(graph.entities) |->
                      LET obs == getActiveObs(graph.entities[i], t, FALSE) IN
                      [entityType |-> graph.entities[i].entityType,
                       name |-> graph.entities[i].name,
                       observations |-> [k \in 1..(IF Len(obs) < 2 THEN Len(obs) ELSE 2) |->
                                           obsText(obs[k])]]]])

McpGraphStats(graph, t) ==
  LET allObs == FlatObs([i \in 1..Len(graph.entities) |->
                          [observations |-> getActiveObs(graph.entities[i], t, FALSE)]])
      avg == AvgScore([i \in 1..Len(allObs) |-> decayScore(allObs[i], t)]) IN
  Reply("OK",
        [entities |-> Len(graph.entities),
         relations |-> Len(graph.relations),
         observations |-> [active |-> Len(allObs)],
         decay |-> [avg_score |-> Fixed3(avg.sum \div avg.n),
                    half_life_days |-> DECAY_HALF_LIFE_DAYS],
         types |-> TypeCounts(graph)])

----------------------------------------------------------------------------
\* Requests

Slots == 1..MaxSlots

BlankBody ==
  [name |-> "", entityType |-> "", observations |-> <<>>, observation |-> "",
   expires_at |-> NoTime, source |-> "", relation |-> "", target |-> "",
   twitter |-> "", moltbook |-> "", description |-> "", platform |-> "",
   verified_via |-> "", attested |-> <<>>, privateKey |-> "", signature |-> ""]

NoReq == [kind |-> "none", ip |-> "", body |-> BlankBody]

NoResp == "none"

StrObs(text) == [str |-> TRUE, text |-> text, observed_at |-> NoTime, expires_at |-> NoTime]

\* an observation object in which the caller supplies the bookkeeping fields
SuppliedObs(text) ==
  [str |-> FALSE, text |-> text, observed_at |-> NoTime, expires_at |-> NoTime,
   last_accessed |-> 0, access_count |-> 3, relevance |-> 5]

\* bodies of POST /entity: a new name with a string and an object as
\* observations, a stored name, and a missing name
EntityBodies ==
  {[BlankBody EXCEPT !.name = "C", !.entityType = "agent",
                     !.observations = <<StrObs("x"), SuppliedObs("w")>>],
   [BlankBody EXCEPT !.name = "A", !.entityType = "agent"],
   [BlankBody EXCEPT !.entityType = "agent"]}

\* bodies of POST /observation: an expiring observation of a stored entity, an
\* observation of an entity yet to be created, and a missing text
ObservationBodies ==
  {[BlankBody EXCEPT !.name = "A", !.observation = "y", !.expires_at = 1],
   [BlankBody EXCEPT !.name = "C", !.observation = "y"],
   [BlankBody EXCEPT !.name = "A"]}

\* bodies of POST /relation: two triples between stored entities, and a
\* missing relation
RelationBodies ==
  {[BlankBody EXCEPT !.source = "A", !.relation = "r", !.target = "B"],
   [BlankBody EXCEPT !.source = "B", !.relation = "r", !.target = "A"],
   [BlankBody EXCEPT !.source = "A", !.target = "B"]}

\* bodies of POST /register-agent: a stored name, a new name to be trimmed, and
\* a blank name
RegisterBodies ==
  {[BlankBody EXCEPT !.name = "A", !.twitter = "@a"],
   [BlankBody EXCEPT !.name = " C ", !.platform = "A"],
   [BlankBody EXCEPT !.name = " "]}

\* arguments of the MCP tools (no field of theirs is checked): the new entity,
\* the observation of it, and the triple from A
McpEntityArgs == {b \in EntityBodies : b.name = "C"}
McpObservationArgs == {b \in ObservationBodies : b.name = "C"}
McpRelationArgs == {b \in RelationBodies : b.source = "A" /\ b.relation # ""}

\* the requests of an ordinary caller through every entry point, and a
\* request of the exempt caller
Requests ==
       {[kind |-> "rest_entity", ip |-> OtherIP, body |-> b] : b \in EntityBodies}
  \cup {[kind |-> "rest_observation", ip |-> OtherIP, body |-> b] : b \in ObservationBodies}
  \cup {[kind |-> "rest_relation", ip |-> OtherIP, body |-> b] : b \in RelationBodies}
  \cup {[kind |-> "register_agent", ip |-> OtherIP, body |-> b] : b \in RegisterBodies}
  \cup {[kind |-> "mcp_create_entity", ip |-> OtherIP, body |-> b] : b \in McpEntityArgs}
  \cup {[kind |-> "mcp_add_observation", ip |-> OtherIP, body |-> b] :
          b \in McpObservationArgs}
  \cup {[kind |-> "mcp_create_relation", ip |-> OtherIP, body |-> b] : b \in McpRelationArgs}
  \cup {[kind |-> "rest_entity", ip |-> OracIP, body |-> b] :
          b \in {c \in EntityBodies : c.name = "C"}}

McpKinds == {"mcp_create_entity", "mcp_add_observation", "mcp_create_relation"}

\* the fields of an observation that handleAttest requires
AttestedFields ==
  {"entity_id", "attribute", "value", "observed_at", "source", "confidence"}

\* handleAttest: observation and privateKey are there and the observation
\* has the required fields (an absent observation is the empty record)
handleAttestValid(body) ==
  /\ body.attested # <<>> /\ body.privateKey # ""
  /\ AttestedFields \subseteq DOMAIN body.attested

\* handleVerify: observation and signature are there
handleVerifyValid(body) == body.attested # <<>> /\ body.signature # ""

\* the operation class a handler passes to checkRateLimit
RateClass(kind) ==
  CASE kind = "rest_entity"      -> "entities"
    [] kind = "rest_observation" -> "observations"
    [] kind = "rest_relation"    -> "relations"
    [] kind = "register_agent"   -> "entities"
    [] kind = "attest"           -> "observations"
    [] kind = "verify"           -> "reads"

\* the handler's check of its required fields
ValidBody(r) ==
  CASE r.kind = "rest_entity"      -> handleCreateEntityValid(r.body)
    [] r.kind = "rest_observation" -> handleAddObservationValid(r.body)
    [] r.kind = "rest_relation"    -> handleCreateRelationValid(r.body)
    [] r.kind = "register_agent"   -> handleRegisterAgentValid(r.body)
    [] r.kind = "attest"           -> handleAttestValid(r.body)
    [] r.kind = "verify"           -> handleVerifyValid(r.body)
    [] OTHER                       -> TRUE

\* the handler from the loaded graph on
Handle(r, graph, t) ==
  CASE r.kind = "rest_entity"         -> handleCreateEntity(graph, r.body, t)
    [] r.kind = "rest_observation"    -> handleAddObservation(graph, r.body, t)
    [] r.kind = "rest_relation"       -> handleCreateRelation(graph, r.body, t)
    [] r.kind = "register_agent"      -> handleRegisterAgent(graph, r.body, t)
    [] r.kind = "mcp_create_entity"   -> McpCreateEntity(graph, r.body, t)
    [] r.kind = "mcp_add_observation" -> McpAddObservation(graph, r.body, t)
    [] r.kind = "mcp_create_relation" -> McpCreateRelation(graph, r.body, t)

----------------------------------------------------------------------------
\* The request model: concurrent requests against one store

\* no sequential run is under way
SeqIdle == opReq = NoReq /\ opOut = NoResp /\ kvBefore = <<>> /\ ops = 0

\* the counters left by the earlier traffic of OtherIP: every class is one
\* call short of its limit
EarlierCounters ==
  [k \in {RateKey(OtherIP, c) : c \in {"entities", "observations", "relations"}} |->
     [count |-> RATE_LIMITS(k[3]) - 1, exp |-> RateTtl]]

\* the graph left by the earlier traffic: the two entities that POST /entity
\* stored at instant 0
EarlierGraph ==
  handleCreateEntity(
    handleCreateEntity(EmptyGraph,
      [BlankBody EXCEPT !.name = "A", !.entityType = "agent",
                        !.observations = <<StrObs("x")>>], 0).graph,
    [BlankBody EXCEPT !.name = "B", !.entityType = "agent"], 0).graph

\* the store as earlier traffic has left it
Init ==
  /\ now = 1
  /\ kvGraph = saveGraph(<<>>, EarlierGraph)
  /\ kvRate = EarlierCounters
  /\ pc = [r \in Slots |-> "idle"]
  /\ req = [r \in Slots |-> NoReq]
  /\ seen = [r \in Slots |-> 0]
  /\ rate = [r \in Slots |-> NoRate]
  /\ loaded = [r \in Slots |-> <<>>]
  /\ local = [r \in Slots |-> EmptyGraph]
  /\ resp = [r \in Slots |-> NoResp]
  /\ wrote = [r \in Slots |-> FALSE]
  /\ fault = [r \in Slots |-> "none"]
  /\ started = 0
  /\ ticks = 0
  /\ rlOp = "none"
  /\ rlLast = NoRate
  /\ streak = 0
  /\ winStart = NoTime
  /\ SeqIdle

\* a request arrives; register-agent checks the name before anything else
Start(r) ==
  /\ pc[r] \in {"idle", "done"}
  /\ \A k \in 1..(r - 1) : pc[k] \notin {"idle", "done"}
  /\ started < MaxStarted
  /\ \E q \in Requests :
       /\ req' = [req EXCEPT ![r] = q]
       /\ IF q.kind = "register_agent" /\ ~ValidBody(q)
          THEN pc' = [pc EXCEPT ![r] = "done"] /\ resp' = [resp EXCEPT ![r] = "InvalidArgument"]
          ELSE /\ pc' = [pc EXCEPT ![r] = IF q.kind \in McpKinds THEN "load" ELSE "rl_get"]
               /\ resp' = [resp EXCEPT ![r] = NoResp]
  /\ seen' = [seen EXCEPT ![r] = 0]
  /\ rate' = [rate EXCEPT ![r] = NoRate]
  /\ loaded' = [loaded EXCEPT ![r] = <<>>]
  /\ local' = [local EXCEPT ![r] = EmptyGraph]
  /\ wrote' = [wrote EXCEPT ![r] = FALSE]
  /\ fault' = [fault EXCEPT ![r] = "none"]
  /\ started' = started + 1
  /\ UNCHANGED <<now, kvGraph, kvRate, ticks, rlVars, seqVars>>

\* what the handler does with the result of checkRateLimit: 429, then the
\* check of the required fields (400), then loadGraph
AfterRate(r, result) ==
  /\ rate' = [rate EXCEPT ![r] = result]
  /\ IF ~result.allowed
     THEN pc' = [pc EXCEPT ![r] = "done"] /\ resp' = [resp EXCEPT ![r] = "RateLimited"]
     ELSE IF ~ValidBody(req[r])
     THEN pc' = [pc EXCEPT ![r] = "done"] /\ resp' = [resp EXCEPT ![r] = "InvalidArgument"]
     ELSE pc' = [pc EXCEPT ![r] = "load"] /\ UNCHANGED resp

\* an exception of the store leaves the handler: nothing catches it
Throw(r) ==
  /\ pc' = [pc EXCEPT ![r] = "done"]
  /\ resp' = [resp EXCEPT ![r] = "StoreUnavailable"]

\* a store access of request r at the given step answered (ok) or failed
Access(r, step, ok) == fault' = [fault EXCEPT ![r] = IF ok THEN @ ELSE step]

\* checkRateLimit: the bypass, or the get of the counter
RateGet(r) ==
  /\ pc[r] = "rl_get"
  /\ \E ok \in BOOLEAN :
       /\ req[r].ip = OracIP => ok
       /\ Access(r, "rl_get", ok)
       /\ LET g == checkRateLimitGet(ok, kvRate, req[r].ip, RateClass(req[r].kind), now) IN
          CASE g.next = "throw" -> Throw(r) /\ UNCHANGED <<rate, seen>>
            [] g.next = "put" ->
                 /\ pc' = [pc EXCEPT ![r] = "rl_put"]
                 /\ seen' = [seen EXCEPT ![r] = g.count]
                 /\ UNCHANGED <<rate, resp>>
            [] g.next = "return" -> AfterRate(r, g.result) /\ UNCHANGED seen
  /\ UNCHANGED <<now, kvGraph, kvRate, req, loaded, local, wrote, started, ticks, rlVars, seqVars>>

\* checkRateLimit: the put of the incremented counter
RatePut(r) ==
  /\ pc[r] = "rl_put"
  /\ \E ok \in BOOLEAN :
       LET p == checkRateLimitPut(ok, kvRate, req[r].ip, RateClass(req[r].kind),
                                  seen[r], now) IN
       /\ Access(r, "rl_put", ok)
       /\ kvRate' = p.store
       /\ IF p.next = "throw" THEN Throw(r) /\ UNCHANGED rate ELSE AfterRate(r, p.result)
  /\ seen' = [seen EXCEPT ![r] = 0]
  /\ UNCHANGED <<now, kvGraph, req, loaded, local, wrote, started, ticks, rlVars, seqVars>>

\* loadGraph answers; the handler runs on to its response or to saveGraph
Load(r) ==
  /\ pc[r] = "load"
  /\ \E ok \in BOOLEAN :
       /\ Access(r, "load", ok)
       /\ IF ~ok
          THEN Throw(r) /\ UNCHANGED <<loaded, local>>
          ELSE LET graph == loadGraph(kvGraph)
                   out == Handle(req[r], graph, now) IN
               IF out.save
               THEN /\ loaded' = [loaded EXCEPT ![r] = <<graph>>]
                    /\ local' = [local EXCEPT ![r] = out.graph]
                    /\ pc' = [pc EXCEPT ![r] = "save"]
                    /\ UNCHANGED resp
               ELSE /\ pc' = [pc EXCEPT ![r] = "done"]
                    /\ resp' = [resp EXCEPT ![r] = out.kind]
                    /\ UNCHANGED <<loaded, local>>
  /\ UNCHANGED <<now, kvGraph, kvRate, req, seen, rate, wrote, started, ticks, rlVars, seqVars>>

\* saveGraph answers; the handler returns its success response and its
\* copies of the graph are dropped
Save(r) ==
  /\ pc[r] = "save"
  /\ \E ok \in BOOLEAN :
       /\ Access(r, "save", ok)
       /\ IF ~ok
          THEN Throw(r) /\ UNCHANGED <<kvGraph, wrote>>
          ELSE /\ kvGraph' = saveGraph(kvGraph, local[r])
               /\ wrote' = [wrote EXCEPT ![r] = TRUE]
               /\ pc' = [pc EXCEPT ![r] = "done"]
               /\ resp' = [resp EXCEPT ![r] = Handle(req[r], loaded[r][1], now).kind]
  /\ loaded' = [loaded EXCEPT ![r] = <<>>]
  /\ local' = [local EXCEPT ![r] = EmptyGraph]
  /\ UNCHANGED <<now, kvRate, req, seen, rate, started, ticks, rlVars, seqVars>>

Next ==
  \/ \E r \in Slots : Start(r)
  \/ \E r \in Slots : RateGet(r)
  \/ \E r \in Slots : RatePut(r)
  \/ \E r \in Slots : Load(r)
  \/ \E r \in Slots : Save(r)

Spec == Init /\ [][Next]_vars

----------------------------------------------------------------------------
\* The sequential limiter model: one caller calls checkRateLimit for one
\* operation class, one call after the other, while time passes

Operations == {"entities", "observations", "relations", "reads", "other"}

CounterLive == KvGetCount(kvRate, RateKey(OtherIP, rlOp), now) # 0

InitRL ==
  /\ now = 1
  /\ kvGraph = <<>>
  /\ kvRate = [k \in {} |-> [count |-> 0, exp |-> 0]]
  /\ pc = [r \in Slots |-> "idle"]
  /\ req = [r \in Slots |-> NoReq]
  /\ seen = [r \in Slots |-> 0]
  /\ rate = [r \in Slots |-> NoRate]
  /\ loaded = [r \in Slots |-> <<>>]
  /\ local = [r \in Slots |-> EmptyGraph]
  /\ resp = [r \in Slots |-> NoResp]
  /\ wrote = [r \in Slots |-> FALSE]
  /\ fault = [r \in Slots |-> "none"]
  /\ started = 0
  /\ ticks = 0
  /\ rlOp \in Operations
  /\ rlLast = NoRate
  /\ streak = 0
  /\ winStart = NoTime
  /\ SeqIdle

\* one whole call of checkRateLimit
CallRL ==
  /\ streak < RATE_LIMITS(rlOp) + MaxOver
  /\ LET c == checkRateLimit(kvRate, OtherIP, rlOp, now) IN
       /\ kvRate' = c.store
       /\ rlLast' = c.result
  /\ streak' = IF CounterLive THEN streak + 1 ELSE 1
  /\ winStart' = IF CounterLive THEN winStart ELSE now
  /\ UNCHANGED <<now, kvGraph, reqVars, ticks, rlOp, seqVars>>

\* time passes: a second, or a second less than the counter lifetime
TickRL ==
  /\ ticks < MaxTicksRL
  /\ \E d \in {1, RateTtl - 1} :
       /\ now' = now + d
       /\ kvRate' = KvExpire(kvRate, now + d)
  /\ ticks' = ticks + 1
  /\ UNCHANGED <<kvGraph, reqVars, rlVars, seqVars>>

\* the persisted counter is cleared
ClearRL ==
  /\ CounterLive
  /\ kvRate' = [k \in {} |-> [count |-> 0, exp |-> 0]]
  /\ UNCHANGED <<now, kvGraph, reqVars, ticks, rlVars, seqVars>>

NextRL == CallRL \/ TickRL \/ ClearRL

SpecRL == InitRL /\ [][NextRL]_vars

----------------------------------------------------------------------------
\* The identities model: the reserved identity and an ordinary one call
\* checkRateLimit of either copy of the worker, one call after the other, for
\* any operation class, against a store that answers or fails

Callers == {OracIP, OtherIP}

\* the slots of the request model and the sequential limiter are not in use
ReqIdle ==
  /\ pc = [r \in Slots |-> "idle"]
  /\ req = [r \in Slots |-> NoReq]
  /\ seen = [r \in Slots |-> 0]
  /\ rate = [r \in Slots |-> NoRate]
  /\ loaded = [r \in Slots |-> <<>>]
  /\ local = [r \in Slots |-> EmptyGraph]
  /\ resp = [r \in Slots |-> NoResp]
  /\ wrote = [r \in Slots |-> FALSE]
  /\ fault = [r \in Slots |-> "none"]
  /\ started = 0

RlIdle == rlOp = "none" /\ rlLast = NoRate /\ streak = 0 /\ winStart = NoTime

InitIds ==
  /\ now = 1
  /\ kvGraph = <<>>
  /\ kvRate = EarlierCounters
  /\ ticks = 0
  /\ ReqIdle /\ RlIdle /\ SeqIdle

\* one call of checkRateLimit, g being the call up to the answer of its get;
\* storeUp is whether the store answers the get
CallOf(copy, ip, operation, storeUp, g) ==
  LET c == IF g.next = "put"
           THEN checkRateLimitPut(TRUE, kvRate, ip, operation, g.count, now)
           ELSE [next |-> g.next, store |-> kvRate, result |-> g.result] IN
  /\ ops < MaxCallsIds
  /\ kvRate' = c.store
  /\ opReq' = [kind |-> "checkRateLimit", copy |-> copy, ip |-> ip,
               operation |-> operation, storeUp |-> storeUp]
  /\ opOut' = c.result   \* NoRate when the call has thrown
  /\ kvBefore' = kvRate
  /\ ops' = ops + 1
  /\ UNCHANGED <<now, kvGraph, reqVars, ticks, rlVars>>

\* a call of the worker's checkRateLimit
CallIds ==
  \E ip \in Callers, operation \in Operations, storeUp \in BOOLEAN :
    CallOf(1, ip, operation, storeUp,
           checkRateLimitGet(storeUp, kvRate, ip, operation, now))

\* a call of the second copy's checkRateLimit
CallIdsSecondCopy ==
  \E ip \in Callers, operation \in Operations, storeUp \in BOOLEAN :
    CallOf(2, ip, operation, storeUp,
           checkRateLimitGetSecondCopy(storeUp, kvRate, ip, operation, now))

NextIds == CallIds \/ CallIdsSecondCopy

SpecIds == InitIds /\ [][NextIds]_vars

----------------------------------------------------------------------------
\* The sequential model: whole requests, mutations and reads, one after the
\* other against a graph that earlier requests have left, while time passes

Day30 == DECAY_HALF_LIFE_DAYS * HoursPerDay * SecondsPerHour

\* the instant the run starts at
SeqT0 == 2 * Day30

\* the graph earlier requests have stored at instant Day30: agents A and B;
\* an observation of A, the observation of B and a relation expire at
\* SeqT0 + Day30
SeqGraph ==
  LET g1 == handleCreateEntity(EmptyGraph,
              [BlankBody EXCEPT !.name = "A", !.entityType = "agent",
                                !.observations = <<StrObs("memory x")>>], Day30).graph
      g2 == handleAddObservation(g1,
              [BlankBody EXCEPT !.name = "A", !.observation = "old",
                                !.expires_at = SeqT0 + Day30], Day30).graph
      g3 == handleCreateEntity(g2,
              [BlankBody EXCEPT !.name = "B", !.entityType = "Old agent",
                                !.observations =
                                  <<[str |-> FALSE, text |-> "Memory y",
                                     observed_at |-> NoTime,
                                     expires_at |-> SeqT0 + Day30]>>], Day30).graph
      g4 == handleCreateRelation(g3,
              [BlankBody EXCEPT !.source = "A", !.relation = "uses", !.target = "B"],
              Day30).graph IN
  handleCreateRelation(g4,
    [BlankBody EXCEPT !.source = "B", !.relation = "knows", !.target = "A",
                      !.expires_at = SeqT0 + Day30], Day30).graph

ReadBody(name, query) == [name |-> name, query |-> query]

\* the reads: an entity by a stored name, by a name yet to be created and by
\* a name in the wrong case; searches in upper and lower case
ReadRequests ==
       {[kind |-> "rest_get_entity", ip |-> OtherIP, body |-> ReadBody(n, "")] :
          n \in {"A", "C", "a"}}
  \cup {[kind |-> "rest_search", ip |-> OtherIP, body |-> ReadBody("", q)] :
          q \in {"MEMORY", "old", "agent"}}
  \cup {[kind |-> k, ip |-> OtherIP, body |-> ReadBody("", "")] :
          k \in {"rest_stats", "rest_graph", "mcp_read_graph", "mcp_graph_stats"}}
  \cup {[kind |-> "mcp_read_entity", ip |-> OtherIP, body |-> ReadBody("A", "")]}
  \cup {[kind |-> "mcp_search_nodes", ip |-> OtherIP, body |-> ReadBody("", "MEMORY")]}

ReadKinds == {q.kind : q \in ReadRequests}

\* the mutations of the request model, a Create Relation to the platform
\* entity register-agent links an agent to, and a Create Entity without type
MutationRequests ==
       {q \in Requests : q.ip = OtherIP /\ q.kind \notin McpKinds}
  \cup {[kind |-> "rest_relation", ip |-> OtherIP,
         body |-> [BlankBody EXCEPT !.source = "A", !.relation = "active_on",
                                    !.target = "Twitter"]]}
  \cup {[kind |-> "rest_entity", ip |-> OtherIP, body |-> [BlankBody EXCEPT !.name = "C"]]}

\* an observation with the fields handleAttest requires
Attested ==
  [entity_id |-> "A", attribute |-> "status", value |-> "up", observed_at |-> "t",
   source |-> "s", confidence |-> "1"]

\* POST /attest and POST /verify: complete, and lacking the key or signature
AttestRequests ==
       {[kind |-> "attest", ip |-> OtherIP,
         body |-> [BlankBody EXCEPT !.attested = Attested, !.privateKey = k]] :
          k \in {"k", ""}}
  \cup {[kind |-> "verify", ip |-> OtherIP,
         body |-> [BlankBody EXCEPT !.attested = Attested, !.signature = g]] :
          g \in {"g", ""}}

\* a caller that has used up every class of the current window
BusyIP == "198.51.100.9"

BusyCounters ==
  [k \in {RateKey(BusyIP, c) : c \in {"entities", "observations", "relations", "reads"}} |->
     [count |-> RATE_LIMITS(k[3]), exp |-> SeqT0 + RateTtl]]

\* one request of that caller to each handler that calls checkRateLimit
BusyRequests ==
       {[kind |-> "rest_entity", ip |-> BusyIP,
         body |-> [BlankBody EXCEPT !.name = "D", !.entityType = "agent"]],
        [kind |-> "rest_observation", ip |-> BusyIP,
         body |-> [BlankBody EXCEPT !.name = "A", !.observation = "z"]],
        [kind |-> "rest_relation", ip |-> BusyIP,
         body |-> [BlankBody EXCEPT !.source = "B", !.relation = "uses", !.target = "A"]],
        [kind |-> "register_agent", ip |-> BusyIP, body |-> [BlankBody EXCEPT !.name = "D"]],
        [kind |-> "rest_get_entity", ip |-> BusyIP, body |-> ReadBody("A", "")],
        [kind |-> "rest_search", ip |-> BusyIP, body |-> ReadBody("", "agent")]}
  \cup {[q EXCEPT !.ip = BusyIP] : q \in {a \in AttestRequests : ValidBody(a)}}

\* the handlers that call checkRateLimit
RateLimitedKinds ==
  {"rest_entity", "rest_observation", "rest_relation", "register_agent",
   "rest_get_entity", "rest_search", "attest", "verify"}

AttestKinds == {"attest", "verify"}

\* the handlers whose success response carries the X-RateLimit headers
HeaderKinds ==
  {"rest_entity", "rest_observation", "rest_relation", "rest_get_entity", "rest_search"}

\* the headers of a response besides CORS_HEADERS, by name
CorsOnly == [h \in {} |-> 0]

RateHeaders(result) ==
  [h \in {"X-RateLimit-Limit", "X-RateLimit-Remaining"} |->
     IF h = "X-RateLimit-Limit" THEN result.limit ELSE result.remaining]

RetryHeaders == [h \in {"Retry-After"} |-> RetryAfterSeconds]

\* only the response that ends a handler, after its saveGraph or its read,
\* is built with the X-RateLimit headers
ResponseHeaders(kind, outKind, result) ==
  IF kind \in HeaderKinds /\ outKind \in {"Created", "OK"}
  THEN RateHeaders(result) ELSE CorsOnly

\* the 429 response of a handler: its headers and its payload
DeniedHeaders(kind) == IF kind \in AttestKinds THEN CorsOnly ELSE RetryHeaders

DeniedPayload(kind, result) ==
  IF kind \in AttestKinds
  THEN [error |-> "Rate limit exceeded", limit |-> result.limit,
        remaining |-> result.remaining]
  ELSE [error |-> "Rate limit exceeded", limit |-> result.limit,
        retryAfter |-> "1 hour"]

SeqRateClass(kind) ==
  IF kind \in {"rest_get_entity", "rest_search"} THEN "reads" ELSE RateClass(kind)

\* the read handler from the loaded graph on
Read(q, graph, t) ==
  CASE q.kind = "rest_get_entity"  -> handleEntity(graph, q.body.name, t)
    [] q.kind = "rest_search"      -> handleSearch(graph, q.body.query, t)
    [] q.kind = "rest_stats"       -> handleStats(graph, t)
    [] q.kind = "rest_graph"       -> handleGraph(graph, t)
    [] q.kind = "mcp_read_entity"  -> McpReadEntity(graph, q.body, t)
    [] q.kind = "mcp_search_nodes" -> McpSearchNodes(graph, q.body, t)
    [] q.kind = "mcp_read_graph"   -> McpReadGraph(graph, t)
    [] q.kind = "mcp_graph_stats"  -> McpGraphStats(graph, t)

Served(kind, result, view, headers, store, doc) ==
  [out |-> [kind |-> kind, rate |-> result, view |-> view, headers |-> headers],
   kvRate |-> store, kvGraph |-> doc]

\* a plausible slip: every handler checks its required fields before it calls
\* checkRateLimit, as register-agent does
ServeValidateFirst(q, store, doc, t) ==
  LET nameFirst == ~ValidBody(q)
      rc == IF q.kind \in RateLimitedKinds /\ ~nameFirst
            THEN checkRateLimit(store, q.ip, SeqRateClass(q.kind), t)
            ELSE [store |-> store, result |-> NoRate]
      graph == loadGraph(doc) IN
  IF nameFirst
  THEN Served("InvalidArgument", NoRate, NoView, CorsOnly, store, doc)
  ELSE IF q.kind \in RateLimitedKinds /\ ~rc.result.allowed
  THEN Served("RateLimited", rc.result, DeniedPayload(q.kind, rc.result),
              DeniedHeaders(q.kind), rc.store, doc)
  ELSE IF q.kind \in ReadKinds
  THEN LET reply == Read(q, graph, t) IN
       Served(reply.kind, rc.result, reply.view,
              ResponseHeaders(q.kind, reply.kind, rc.result), rc.store,
              IF reply.save THEN saveGraph(doc, reply.graph) ELSE doc)
  ELSE IF ~ValidBody(q)
  THEN Served("InvalidArgument", rc.result, NoView, CorsOnly, rc.store, doc)
  ELSE IF q.kind \in AttestKinds
  THEN Served("OK", rc.result, NoView, CorsOnly, rc.store, doc)
  ELSE LET out == Handle(q, graph, t) IN
       Served(out.kind, rc.result, NoView,
              ResponseHeaders(q.kind, out.kind, rc.result), rc.store,
              IF out.save THEN saveGraph(doc, out.graph) ELSE doc)

\* a whole request against a store that answers: the rate check, the check
\* of the required fields, loadGraph, the handler and saveGraph
Serve(q, store, doc, t) ==
  LET nameFirst == q.kind = "register_agent" /\ ~ValidBody(q)
      rc == IF q.kind \in RateLimitedKinds /\ ~nameFirst
            THEN checkRateLimit(store, q.ip, SeqRateClass(q.kind), t)
            ELSE [store |-> store, result |-> NoRate]
      graph == loadGraph(doc) IN
  IF nameFirst
  THEN Served("InvalidArgument", NoRate, NoView, CorsOnly, store, doc)
  ELSE IF q.kind \in RateLimitedKinds /\ ~rc.result.allowed
  THEN Served("RateLimited", rc.result, DeniedPayload(q.kind, rc.result),
              DeniedHeaders(q.kind), rc.store, doc)
  ELSE IF q.kind \in ReadKinds
  THEN LET reply == Read(q, graph, t) IN
       Served(reply.kind, rc.result, reply.view,
              ResponseHeaders(q.kind, reply.kind, rc.result), rc.store,
              IF reply.save THEN saveGraph(doc, reply.graph) ELSE doc)
  ELSE IF ~ValidBody(q)
  THEN Served("InvalidArgument", rc.result, NoView, CorsOnly, rc.store, doc)
  ELSE IF q.kind \in AttestKinds
  THEN Served("OK", rc.result, NoView, CorsOnly, rc.store, doc)
  ELSE LET out == Handle(q, graph, t) IN
       Served(out.kind, rc.result, NoView,
              ResponseHeaders(q.kind, out.kind, rc.result), rc.store,
              IF out.save THEN saveGraph(doc, out.graph) ELSE doc)

InitSeq ==
  /\ now = SeqT0
  /\ kvGraph = saveGraph(<<>>, SeqGraph)
  /\ kvRate = BusyCounters
  /\ ticks = 0
  /\ ReqIdle /\ RlIdle /\ SeqIdle

ServeSeq(q) ==
  /\ ops < MaxOps
  /\ LET s == Serve(q, kvRate, kvGraph, now) IN
       /\ kvRate' = s.kvRate
       /\ kvGraph' = s.kvGraph
       /\ opOut' = s.out
  /\ opReq' = q
  /\ kvBefore' = [graph |-> kvGraph, rate |-> kvRate]
  /\ ops' = ops + 1
  /\ UNCHANGED <<now, reqVars, ticks, rlVars>>

MutateSeq == \E q \in MutationRequests : ServeSeq(q)

ReadSeq == \E q \in ReadRequests : ServeSeq(q)

AttestSeq == \E q \in AttestRequests : ServeSeq(q)

BusySeq == \E q \in BusyRequests : ServeSeq(q)

\* thirty days pass between two requests
TickSeq ==
  /\ ticks < MaxTicksSeq
  /\ now' = now + Day30
  /\ kvRate' = KvExpire(kvRate, now + Day30)
  /\ ticks' = ticks + 1
  /\ opReq' = NoReq /\ opOut' = NoResp /\ kvBefore' = <<>>
  /\ UNCHANGED <<kvGraph, reqVars, rlVars, ops>>

NextSeq == MutateSeq \/ ReadSeq \/ AttestSeq \/ BusySeq \/ TickSeq

SpecSeq == InitSeq /\ [][NextSeq]_vars

-----------------------------------------------------------------------------
\* The decay engine on its own: decayScore of one observation at a fixed now,
\* scored, then scored again with its observed_at moved back. opReq is the
\* observation, opOut its score, kvBefore the observation and score before
\* the latest move.

DaySeconds == HoursPerDay * SecondsPerHour

DecayNow == 40 * Day30

\* observed_at: absent, now, a day ago, a half-life ago, a day ahead
ObservedAts == {NoTime, DecayNow, DecayNow - DaySeconds, DecayNow - Day30, DecayNow + DaySeconds}

\* last_accessed: absent, now, within the recency window, at its end
LastAccesses ==
  {NoTime, DecayNow, DecayNow - 3 * DaySeconds, DecayNow - RECENCY_BOOST_DAYS * DaySeconds}

AccessCounts == {0, 1, 5}

Relevances == {-1, 0, 1, 2}

DecayObservations ==
  {[text |-> "t", observed_at |-> oa, expires_at |-> NoTime, last_accessed |-> la,
    access_count |-> ac, relevance |-> rv] :
     oa \in ObservedAts, la \in LastAccesses, ac \in AccessCounts, rv \in Relevances}

\* by how much observed_at is moved back: a day, a half-life, ten half-lives
AgeSteps == {DaySeconds, Day30, 10 * Day30}

NotScored == [scored |-> FALSE, score |-> 0]

InitDecay ==
  /\ now = DecayNow
  /\ kvGraph = <<>>
  /\ kvRate = [k \in {} |-> [count |-> 0, exp |-> 0]]
  /\ ticks = 0
  /\ ReqIdle /\ RlIdle
  /\ opReq \in DecayObservations
  /\ opOut = NotScored
  /\ kvBefore = <<>>
  /\ ops = 0

ScoreDecay ==
  /\ ~opOut.scored
  /\ opOut' = [scored |-> TRUE, score |-> decayScore(opReq, now)]
  /\ UNCHANGED <<now, kvGraph, kvRate, reqVars, ticks, rlVars, opReq, kvBefore, ops>>

AgeDecay ==
  \E step \in AgeSteps :
    /\ opOut.scored
    /\ ops < MaxAgeings
    /\ LET older == [opReq EXCEPT
                       !.observed_at = (IF @ = NoTime THEN now ELSE @) - step] IN
         /\ opReq' = older
         /\ opOut' = [scored |-> TRUE, score |-> decayScore(older, now)]
    /\ kvBefore' = <<[obs |-> opReq, score |-> opOut.score]>>
    /\ ops' = ops + 1
    /\ UNCHANGED <<now, kvGraph, kvRate, reqVars, ticks, rlVars>>

NextDecay == ScoreDecay \/ AgeDecay

SpecDecay == InitDecay /\ [][NextDecay]_vars

-----------------------------------------------------------------------------
\* Attestation signatures: createSignableMessage, signObservation,
\* verifySignature and isAuthorizedSource behind POST /attest and /verify.
\* Byte arrays are written as their hex digits; the digest and the curve
\* operations are symbolic: keccak_256 is one-to-one and a signature
\* verifies exactly under the public key of the secret key that made it.

Undefined == ""      \* an absent property; falsy like the empty string

Null == "null"

JsString(s) == [type |-> "string", s |-> s, n |-> 0]

JsNumber(n) == [type |-> "number", s |-> "", n |-> n]

DecimalDigits == <<"0", "1", "2", "3", "4", "5", "6", "7", "8", "9">>

\* Number.prototype.toString of a natural number
RECURSIVE NumberToString(_)
NumberToString(n) ==
  IF n < 10 THEN DecimalDigits[n + 1]
  ELSE NumberToString(n \div 10) \o DecimalDigits[(n % 10) + 1]

\* the text a template literal puts in place of ${value}
TemplateText(value) ==
  IF value.type = "number" THEN NumberToString(value.n) ELSE value.s

StartsWith(text, prefix) ==
  Len(text) >= Len(prefix) /\ SubSeq(text, 1, Len(prefix)) = prefix

RECURSIVE Repeat(_, _)
Repeat(text, count) == IF count = 0 THEN "" ELSE text \o Repeat(text, count - 1)

\* hexToBytes: the digits after an optional 0x
hexToBytes(hex) == IF StartsWith(hex, "0x") THEN SubSeq(hex, 3, Len(hex)) ELSE hex

bytesToHex(bytes) == "0x" \o bytes

\* the 32-byte digest of the data, one digest per data
keccak_256(data) == "k<" \o data \o ">"

keccak256(message) == bytesToHex(keccak_256(message))

AddressHexDigits == 40

\* publicKeyToAddress: drop the 04 prefix, hash, keep the last 20 bytes
publicKeyToAddress(publicKeyBytes) ==
  LET key  == IF StartsWith(publicKeyBytes, "04")
              THEN SubSeq(publicKeyBytes, 3, Len(publicKeyBytes))
              ELSE publicKeyBytes
      hash == keccak_256(key)
  IN "0x" \o Repeat(SubSeq(hash, Len(hash) - 1, Len(hash) - 1), AddressHexDigits)

createSignableMessage(observation) ==
       TemplateText(observation.entity_id) \o "|" \o TemplateText(observation.attribute)
  \o "|" \o TemplateText(observation.value) \o "|" \o TemplateText(observation.observed_at)
  \o "|" \o TemplateText(observation.source) \o "|" \o TemplateText(observation.confidence)

\* the secret keys of the curve (32 bytes in the code, one here)
SecretKeys == {"01", "0a"}

\* secp.getPublicKey(key, false): the uncompressed point, prefix 04
secp_getPublicKey(privateKeyBytes) == "04" \o "9" \o privateKeyBytes

\* secp.signAsync: the deterministic signature of the hash under the key
secp_signAsync(hashBytes, privateKeyBytes) ==
  "5" \o privateKeyBytes \o "<" \o hashBytes \o ">"

\* secp.verify: the signature is the one a key with this public key makes
secp_verify(sigBytes, hashBytes, publicKeyBytes) ==
  \E key \in SecretKeys :
    /\ secp_getPublicKey(key) = publicKeyBytes
    /\ sigBytes = secp_signAsync(hashBytes, key)

NoSignature ==
  [algorithm |-> Undefined, public_key |-> Undefined, public_key_full |-> Undefined,
   signature_hex |-> Undefined, message_hash |-> Undefined]

\* signObservation handing the key text to the curve with its 0x prefix
signObservationKeepPrefix(observation, privateKeyHex) ==
  LET messageHash == keccak256(createSignableMessage(observation))
      signature   == secp_signAsync(hexToBytes(messageHash), privateKeyHex)
      publicKey   == secp_getPublicKey(privateKeyHex)
  IN [algorithm       |-> "ECDSA-secp256k1",
      public_key      |-> publicKeyToAddress(publicKey),
      public_key_full |-> bytesToHex(publicKey),
      signature_hex   |-> bytesToHex(signature),
      message_hash    |-> messageHash]

signObservation(observation, privateKeyHex) ==
  LET privateKeyBytes == hexToBytes(privateKeyHex)
      messageHash == keccak256(createSignableMessage(observation))
      signature   == secp_signAsync(hexToBytes(messageHash), privateKeyBytes)
      publicKey   == secp_getPublicKey(privateKeyBytes)
  IN [algorithm       |-> "ECDSA-secp256k1",
      public_key      |-> publicKeyToAddress(publicKey),
      public_key_full |-> bytesToHex(publicKey),
      signature_hex   |-> bytesToHex(signature),
      message_hash    |-> messageHash]

VerifyFailed(error) == [valid |-> FALSE, signer |-> Null, error |-> error]

\* verifySignature: every failure, a thrown one too, is a result
verifySignature(observation, signature) ==
  LET messageHash == keccak256(createSignableMessage(observation)) IN
    IF messageHash # signature.message_hash
    THEN VerifyFailed("Message hash mismatch")
    ELSE IF \/ signature.public_key = Undefined
            \/ signature.signature_hex = Undefined
            \/ signature.algorithm = Undefined
    THEN VerifyFailed("Invalid signature structure")
    ELSE IF signature.public_key_full = Undefined
    THEN VerifyFailed("TypeError")   \* hexToBytes(undefined) throws: the catch
    ELSE IF ~secp_verify(hexToBytes(signature.signature_hex), hexToBytes(messageHash),
                         hexToBytes(signature.public_key_full))
    THEN VerifyFailed("Invalid signature")
    ELSE [valid |-> TRUE, signer |-> signature.public_key, error |-> Null]

\* isAuthorizedSource: an address source must equal the signer; any other
\* source accepts every signer that looks like an address
isAuthorizedSource(signerAddress, source) ==
  IF StartsWith(source, "0x")
  THEN toLowerCase(signerAddress) = toLowerCase(source)
  ELSE /\ signerAddress # Undefined
       /\ Len(signerAddress) = 2 + AddressHexDigits
       /\ StartsWith(signerAddress, "0x")

\* private keys as the caller writes them: with 0x, without, and no key
PrivateKeyHexes == {"0x01", "0a", "zz"}

AddressOf(privateKeyHex) ==
  publicKeyToAddress(secp_getPublicKey(hexToBytes(privateKeyHex)))

SignerAddresses == {AddressOf(key) : key \in {"0x01", "0a"}}

\* sources: a name, the address of the first key, the second in capitals
SigSources == {"orac.eth", AddressOf("0x01"), "0x" \o Repeat("A", AddressHexDigits)}

SigObservations ==
  {[entity_id |-> JsString(e), attribute |-> JsString(a), value |-> JsString("v"),
    observed_at |-> JsString("t"), source |-> JsString(s), confidence |-> c] :
     e \in {"a", "a|b"}, a \in {"c", "b|c"}, s \in SigSources,
     c \in {JsNumber(1), JsString("1"), JsNumber(10)}}

\* the observations first put forward for signing
FirstObservations ==
  {o \in SigObservations : o.source.s # "orac.eth" \/ o.confidence = JsNumber(1)}

\* what a forger may put in place of one field of an observation
FieldValues(field) ==
  IF field = "value" THEN {JsString("v"), JsString("w")}
  ELSE IF field = "observed_at" THEN {JsString("t"), JsString("u")}
  ELSE {o[field] : o \in SigObservations}

NoAttestation == [observation |-> <<>>, privateKey |-> "", signature |-> NoSignature]

NoSigOut ==
  [op |-> "none", status |-> 0, valid |-> FALSE, signer |-> Null, error |-> Null,
   authorized |-> FALSE]

\* handleAttest past the rate check; a key that is no key makes the curve
\* throw, which the handler answers with 500
handleAttestOut(observation, privateKey) ==
  IF hexToBytes(privateKey) \notin SecretKeys
  THEN [NoSigOut EXCEPT !.op = "attest", !.status = 500, !.error = "Signature creation failed"]
  ELSE [NoSigOut EXCEPT !.op = "attest", !.status = 200]

\* handleVerify past the rate check
handleVerifyOut(observation, signature) ==
  IF signature = NoSignature
  THEN [NoSigOut EXCEPT !.op = "verify", !.status = 400,
                        !.error = "Missing required fields: observation, signature"]
  ELSE LET result == verifySignature(observation, signature) IN
         IF ~result.valid
         THEN [NoSigOut EXCEPT !.op = "verify", !.status = 200, !.error = result.error]
         ELSE [op |-> "verify", status |-> 200, valid |-> TRUE, signer |-> result.signer,
               error |-> Null,
               authorized |-> isAuthorizedSource(result.signer, observation.source.s)]

InitSig ==
  /\ now = 1
  /\ kvGraph = <<>>
  /\ kvRate = [k \in {} |-> [count |-> 0, exp |-> 0]]
  /\ ticks = 0
  /\ ReqIdle /\ RlIdle
  /\ opReq \in {[observation |-> o, signature |-> NoSignature] : o \in FirstObservations}
  /\ opOut = NoSigOut
  /\ kvBefore = NoAttestation
  /\ ops = 0

SigFrame == UNCHANGED <<now, kvGraph, kvRate, reqVars, ticks, rlVars>>

\* POST /attest of the observation at hand
AttestSig ==
  \E key \in PrivateKeyHexes :
    /\ ops < MaxSigSteps
    /\ opOut' = handleAttestOut(opReq.observation, key)
    /\ IF opOut'.status = 200
       THEN LET signature == signObservation(opReq.observation, key) IN
              /\ opReq' = [opReq EXCEPT !.signature = signature]
              /\ kvBefore' = [observation |-> opReq.observation, privateKey |-> key,
                              signature |-> signature]
       ELSE UNCHANGED <<opReq, kvBefore>>
    /\ ops' = ops + 1
    /\ SigFrame

\* the holder of an attestation changes one field of the observation
TamperObservation ==
  \E field \in AttestedFields : \E value \in FieldValues(field) :
    /\ ops < MaxSigSteps
    /\ value # opReq.observation[field]
    /\ opReq' = [opReq EXCEPT !.observation[field] = value]
    /\ opOut' = NoSigOut
    /\ ops' = ops + 1
    /\ UNCHANGED kvBefore
    /\ SigFrame

\* ... or one property of the signature object
CanForge(property, value) ==
  /\ ops < MaxSigSteps
  /\ opReq.signature # NoSignature
  /\ value # opReq.signature[property]

Forged(property, value) == [opReq EXCEPT !.signature[property] = value]

DropSignatureHex ==
  /\ CanForge("signature_hex", Undefined)
  /\ opReq' = Forged("signature_hex", Undefined)
  /\ opOut' = NoSigOut
  /\ ops' = ops + 1
  /\ UNCHANGED kvBefore
  /\ SigFrame

\* another hash: a made-up one, or the hash of the observation at hand
ChangeMessageHash ==
  \E hash \in {"0x" \o Repeat("a", 64),
                keccak256(createSignableMessage(opReq.observation))} :
    /\ CanForge("message_hash", hash)
    /\ opReq' = Forged("message_hash", hash)
    /\ opOut' = NoSigOut
    /\ ops' = ops + 1
    /\ UNCHANGED kvBefore
    /\ SigFrame

ReplacePublicKey ==
  \E address \in SignerAddresses \cup {Undefined} :
    /\ CanForge("public_key", address)
    /\ opReq' = Forged("public_key", address)
    /\ opOut' = NoSigOut
    /\ ops' = ops + 1
    /\ UNCHANGED kvBefore
    /\ SigFrame

ReplacePublicKeyFull ==
  \E publicKey \in {bytesToHex(secp_getPublicKey(key)) : key \in SecretKeys}
                     \cup {Undefined} :
    /\ CanForge("public_key_full", publicKey)
    /\ opReq' = Forged("public_key_full", publicKey)
    /\ opOut' = NoSigOut
    /\ ops' = ops + 1
    /\ UNCHANGED kvBefore
    /\ SigFrame

\* POST /verify of the observation and signature at hand
VerifySig ==
  /\ opOut.op # "verify"
  /\ opOut' = handleVerifyOut(opReq.observation, opReq.signature)
  /\ UNCHANGED <<opReq, kvBefore, ops>>
  /\ SigFrame

NextSig ==
  \/ AttestSig
  \/ TamperObservation
  \/ DropSignatureHex
  \/ ChangeMessageHash
  \/ ReplacePublicKey
  \/ ReplacePublicKeyFull
  \/ VerifySig

SpecSig == InitSig /\ [][NextSig]_vars

-----------------------------------------------------------------------------
\* The limiter under concurrency: overlapping requests whose handlers call
\* checkRateLimit first and then find the body incomplete, against counters
\* an earlier part of the window has left, while time passes

\* POST /entity and POST /relation without their required fields
RaceRequests ==
       {[kind |-> "rest_entity", ip |-> ip, body |-> BlankBody] : ip \in {OtherIP, OracIP}}
  \cup {[kind |-> "rest_relation", ip |-> OtherIP, body |-> BlankBody]}

\* the 'entities' counter of the ordinary caller as calls at instant 0 left
\* it: absent, or at two below the limit, one below, or at the limit
RaceCounters ==
  {[k \in {} |-> [count |-> 0, exp |-> 0]]}
    \cup {[k \in {RateKey(OtherIP, "entities")} |-> [count |-> c, exp |-> RateTtl]] :
            c \in {LimitEntities - 2, LimitEntities - 1, LimitEntities}}

InitRace ==
  /\ now = 1
  /\ kvGraph = <<>>
  /\ kvRate \in RaceCounters
  /\ ticks = 0
  /\ ReqIdle /\ RlIdle /\ SeqIdle

\* a request arrives at its handler
StartRace(r) ==
  /\ pc[r] \in {"idle", "done"}
  /\ \A k \in 1..(r - 1) : pc[k] \notin {"idle", "done"}
  /\ started < MaxCallsRace
  /\ \E q \in RaceRequests : req' = [req EXCEPT ![r] = q]
  /\ pc' = [pc EXCEPT ![r] = "rl_get"]
  /\ resp' = [resp EXCEPT ![r] = NoResp]
  /\ seen' = [seen EXCEPT ![r] = 0]
  /\ rate' = [rate EXCEPT ![r] = NoRate]
  /\ fault' = [fault EXCEPT ![r] = "none"]
  /\ started' = started + 1
  /\ UNCHANGED <<now, kvGraph, kvRate, loaded, local, wrote, ticks, rlVars, seqVars>>

\* time passes: a second, or a second less than the counter lifetime
TickRace ==
  /\ ticks < MaxTicksRace
  /\ \E d \in {1, RateTtl - 1} :
       /\ now' = now + d
       /\ kvRate' = KvExpire(kvRate, now + d)
  /\ ticks' = ticks + 1
  /\ UNCHANGED <<kvGraph, reqVars, rlVars, seqVars>>

NextRace ==
  \/ \E r \in Slots : StartRace(r)
  \/ \E r \in Slots : RateGet(r)
  \/ \E r \in Slots : RatePut(r)
  \/ TickRace

SpecRace == InitRace /\ [][NextRace]_vars

----------------------------------------------------------------------------
\* Claims about the rate limiter

\* the limits the documentation states per operation class
StatedLimit(operation) ==
  CASE operation = "entities"     -> 10
    [] operation = "observations" -> 50
    [] operation = "relations"    -> 20
    [] operation = "reads"        -> 1000
    [] OTHER                      -> 100

\* C1: counting from an absent counter, the k-th sequential call of a class
\* with limit L is allowed with remaining = L - k for every k <= L (so the
\* first call after an expiry or a clearing has remaining = L - 1), and every
\* call after the L-th is denied with remaining = 0.
C1_WindowQuota ==
  streak >= 1 =>
    LET L == StatedLimit(rlOp) IN
      /\ rlLast.returned /\ rlLast.limit = L
      /\ streak <= L => rlLast.allowed /\ rlLast.remaining = L - streak
      /\ streak > L => ~rlLast.allowed /\ rlLast.remaining = 0

\* the (L+1)-th call of a window has been made and denied
C1_Witness ==
  /\ streak = StatedLimit(rlOp) + 1
  /\ ~rlLast.allowed
  /\ ticks > 0

\* C2: the counter expires exactly one hour after the first increment of its
\* window, whenever the later permitted calls are made.
C2_TtlSetOnce ==
  CounterLive => kvRate[RateKey(OtherIP, rlOp)].exp = winStart + RateTtl

----------------------------------------------------------------------------
\* Claims about the persisted graph document

Stored == loadGraph(kvGraph)

Triple(rel) == <<rel.source, rel.relation, rel.target>>

EntityNames(graph) == {graph.entities[i].name : i \in 1..Len(graph.entities)}

Triples(graph) == {Triple(graph.relations[i]) : i \in 1..Len(graph.relations)}

Ended(r) == pc[r] = "done"

\* C3: no two relations of the persisted document have the same
\* (source, relation, target) triple.
C3_UniqueTriples ==
  \A i, j \in 1..Len(Stored.relations) :
    i # j => Triple(Stored.relations[i]) # Triple(Stored.relations[j])

\* C4: no two entities of the persisted document have the same name, under
\* every interleaving of the requests of every entry point.
C4_UniqueNames ==
  \A i, j \in 1..Len(Stored.entities) :
    i # j => Stored.entities[i].name # Stored.entities[j].name

EntityCreators == {"rest_entity", "mcp_create_entity", "register_agent"}

CreatedName(q) == IF q.kind = "register_agent" THEN Trim(q.body.name) ELSE q.body.name

\* two overlapping requests of different entry points have both stored an
\* entity of the same name
C4_Witness ==
  \E r1, r2 \in Slots :
    /\ r1 # r2 /\ Ended(r1) /\ Ended(r2) /\ wrote[r1] /\ wrote[r2]
    /\ req[r1].kind \in EntityCreators /\ req[r2].kind \in EntityCreators
    /\ req[r1].kind # req[r2].kind
    /\ resp[r1] = "Created" /\ resp[r2] = "Created"
    /\ CreatedName(req[r1]) = CreatedName(req[r2])
    /\ CreatedName(req[r1]) \in EntityNames(Stored)

\* C5: the source and the target of every relation of the persisted
\* document name an entity of that document.
C5_EndpointsExist ==
  \A i \in 1..Len(Stored.relations) :
    /\ HasEntity(Stored, Stored.relations[i].source)
    /\ HasEntity(Stored, Stored.relations[i].target)

\* C6: saveGraph replaces the stored document by the writer's copy whatever
\* is stored (no version check guards it), so that the lost update of the
\* witness is reachable.
C6_SaveReplacesDocument ==
  [][\A r \in Slots :
       (pc[r] = "save" /\ wrote'[r] /\ ~wrote[r]) => kvGraph' = <<local[r]>>]_vars

\* two overlapping Create Relation requests for different triples have both
\* returned Created and the persisted document holds only one of the two
C6_LostUpdate ==
  \E r1, r2 \in Slots :
    /\ r1 # r2 /\ Ended(r1) /\ Ended(r2)
    /\ req[r1].kind = "rest_relation" /\ req[r2].kind = "rest_relation"
    /\ resp[r1] = "Created" /\ resp[r2] = "Created"
    /\ Triple(req[r1].body) # Triple(req[r2].body)
    /\ Triple(req[r1].body) \notin Triples(Stored)
    /\ Triple(req[r2].body) \in Triples(Stored)

\* C7 as stated: an entity or relation of the persisted document is in the
\* persisted document after every later step.
C7_NeverDeleted ==
  [][/\ EntityNames(Stored) \subseteq EntityNames(loadGraph(kvGraph'))
     /\ Triples(Stored) \subseteq Triples(loadGraph(kvGraph'))]_vars

\* graph h holds every entity and every relation of graph g, in g's order
Extends(g, h) ==
  /\ Len(g.entities) <= Len(h.entities)
  /\ \A i \in 1..Len(g.entities) : h.entities[i].name = g.entities[i].name
  /\ Len(g.relations) <= Len(h.relations)
  /\ \A i \in 1..Len(g.relations) : h.relations[i] = g.relations[i]

\* C7 amended: no operation deletes. The document a request saves holds
\* every entity and every relation of the document that request loaded.
C7_SavedExtendsLoaded ==
  [][\A r \in Slots :
       (pc[r] = "save" /\ wrote'[r] /\ ~wrote[r]) =>
         Extends(loaded[r][1], loadGraph(kvGraph'))]_vars

\* a request has saved a document that extends the one it loaded while the
\* relation another request had created meanwhile is gone
C7_Witness ==
  \E r1, r2 \in Slots :
    /\ r1 # r2 /\ Ended(r1) /\ Ended(r2) /\ wrote[r1] /\ wrote[r2]
    /\ req[r1].kind = "rest_relation" /\ resp[r1] = "Created"
    /\ Triple(req[r1].body) \notin Triples(Stored)
    /\ req[r2].kind \in {"rest_observation", "mcp_add_observation"}
    /\ req[r2].body.name \in EntityNames(Stored)

RestMutations == {"rest_entity", "rest_observation", "rest_relation"}

FailureKinds == {"RateLimited", "InvalidArgument", "NotFound", "Conflict"}

\* C8: a Create Entity, Add Observation or Create Relation request that ends
\* with RateLimited, InvalidArgument, NotFound or Conflict has not written
\* the graph document.
C8_FailedMutationWritesNothing ==
  \A r \in Slots :
    (Ended(r) /\ req[r].kind \in RestMutations /\ resp[r] \in FailureKinds)
      => ~wrote[r]

\* a Create Relation has ended with Conflict on the triple an earlier request
\* had stored
C8_Witness ==
  \E r \in Slots :
    /\ Ended(r) /\ req[r].kind = "rest_relation" /\ resp[r] = "Conflict"
    /\ Triple(req[r].body) \in Triples(Stored)

\* C9: a request that has written the graph document has earlier obtained
\* allowed = true from checkRateLimit.
C9_WriteOnlyAfterAllowed ==
  \A r \in Slots : wrote[r] => rate[r].returned /\ rate[r].allowed

RateSteps == {"rl_get", "rl_put"}

\* C10: when the store fails during the rate-limit check of a request,
\* checkRateLimit returns no result (so never allowed = true), the request
\* ends with the failure and has neither loaded nor written the graph.
C10_RateStoreFailureDenies ==
  \A r \in Slots :
    fault[r] \in RateSteps =>
      /\ ~rate[r].returned /\ ~rate[r].allowed
      /\ Ended(r) /\ resp[r] = "StoreUnavailable"
      /\ loaded[r] = <<>> /\ ~wrote[r]

\* the put of the incremented counter has failed for a request
C10_Witness ==
  \E r \in Slots : fault[r] = "rl_put" /\ Ended(r) /\ resp[r] = "StoreUnavailable"

----------------------------------------------------------------------------
\* Claims about the exempt identity

\* a call by the reserved identity has returned allowed with 9999/9999 and
\* left every counter as it was
ExemptReturn == opOut = RateResult(TRUE, BypassLimit, BypassLimit) /\ kvRate = kvBefore

\* a call by another identity has been counted: it has thrown when the store
\* was down, been denied at the limit, and else raised the counter of its
\* class by one and returned the limit minus the new count
CountedReturn ==
  LET key == RateKey(opReq.ip, opReq.operation)
      count == KvGetCount(kvBefore, key, now)
      limit == RATE_LIMITS(opReq.operation) IN
  IF ~opReq.storeUp
  THEN opOut = NoRate /\ kvRate = kvBefore
  ELSE IF count >= limit
  THEN opOut = RateResult(FALSE, 0, limit) /\ kvRate = kvBefore
  ELSE /\ opOut = RateResult(TRUE, limit - (count + 1), limit)
       /\ KvGetCount(kvRate, key, now) = count + 1

\* C11: a call of checkRateLimit by the reserved identity returns allowed with
\* 9999/9999 for every operation class, whether or not the store answers,
\* and leaves every counter as it was; a call by any other identity is
\* counted.
C11_ExemptEarlyReturn ==
  ops > 0 => IF opReq.ip = OracIP THEN ExemptReturn ELSE CountedReturn

\* the same of the calls of the worker's own checkRateLimit (lines 75-93),
\* which has the early return
C11_WorkerExempts ==
  (ops > 0 /\ opReq.copy = 1) =>
    IF opReq.ip = OracIP THEN ExemptReturn ELSE CountedReturn

----------------------------------------------------------------------------
\* Claims about the handlers, on whole requests made one after the other

\* the graph the latest request found, and the graph it has left
GraphBefore == loadGraph(kvBefore.graph)

\* the latest request is of the given kind and the rate limiter let it pass
Admitted(kind) == opReq.kind = kind /\ opOut.rate.allowed

\* C12: a Create Relation that lacks source, relation or target ends with
\* InvalidArgument; one that has them ends with Conflict or NotFound when its
\* triple is stored or an endpoint names no entity: Conflict only for a stored
\* triple, NotFound only for a missing endpoint.
C12_CreateRelationRejects ==
  Admitted("rest_relation") =>
    LET b == opReq.body
        missing == b.source = "" \/ b.relation = "" \/ b.target = ""
        duplicate == Triple(b) \in Triples(GraphBefore)
        dangling == {b.source, b.target} \ EntityNames(GraphBefore) # {} IN
    /\ missing => opOut.kind = "InvalidArgument"
    /\ (~missing /\ (duplicate \/ dangling)) =>
         opOut.kind \in {k \in {"Conflict"} : duplicate} \cup {k \in {"NotFound"} : dangling}
    /\ opOut.kind = "Created" => ~missing /\ ~duplicate /\ ~dangling

\* a Create Relation has been rejected with Conflict for a triple an earlier
\* request of the run had stored
C12_Witness ==
  /\ Admitted("rest_relation") /\ opOut.kind = "Conflict"
  /\ Triple(opReq.body) \notin Triples(SeqGraph)
  /\ Triple(opReq.body) \in Triples(Stored)

\* C13: a Create Entity without name or entityType ends with InvalidArgument,
\* one whose name is stored ends with Conflict, and both leave the document
\* as it was; any other appends one entity of that name and type to the
\* document, leaves the rest as it was and returns Created.
C13_CreateEntity ==
  Admitted("rest_entity") =>
    LET b == opReq.body
        g == GraphBefore
        missing == b.name = "" \/ b.entityType = ""
        exists == b.name \in EntityNames(g) IN
    IF missing \/ exists
    THEN /\ opOut.kind \in {k \in {"InvalidArgument"} : missing}
                          \cup {k \in {"Conflict"} : exists}
         /\ kvGraph = kvBefore.graph
    ELSE /\ opOut.kind = "Created"
         /\ Len(Stored.entities) = Len(g.entities) + 1
         /\ SubSeq(Stored.entities, 1, Len(g.entities)) = g.entities
         /\ Stored.entities[Len(Stored.entities)].name = b.name
         /\ Stored.entities[Len(Stored.entities)].entityType = b.entityType
         /\ Stored.relations = g.relations

\* a Create Entity has been answered with Conflict after an earlier request
\* of the run had created the entity
C13_Witness ==
  /\ Admitted("rest_entity") /\ opOut.kind = "Conflict"
  /\ opReq.body.name \notin EntityNames(SeqGraph)

\* C14: an Add Observation without name or text ends with InvalidArgument,
\* one that names no entity ends with NotFound; any other returns success
\* after appending one observation (the text, observed_at = now,
\* access_count = 0, relevance = 1.0) at the end of the observations of that
\* entity and setting its updated to now, every other entity, every earlier
\* observation and every relation being as before.
C14_AddObservation ==
  Admitted("rest_observation") =>
    LET b == opReq.body
        g == GraphBefore
        missing == b.name = "" \/ b.observation = ""
        absent == b.name \notin EntityNames(g)
        i == EntityIndex(g, b.name) IN
    IF missing \/ absent
    THEN /\ opOut.kind \in {k \in {"InvalidArgument"} : missing}
                          \cup {k \in {"NotFound"} : absent}
         /\ missing => opOut.kind = "InvalidArgument"
         /\ kvGraph = kvBefore.graph
    ELSE LET old == g.entities[i]
             new == Stored.entities[i]
             o == new.observations[Len(new.observations)] IN
         /\ opOut.kind = "OK"
         /\ Stored.relations = g.relations
         /\ Len(Stored.entities) = Len(g.entities)
         /\ \A j \in 1..Len(g.entities) : j # i => Stored.entities[j] = g.entities[j]
         /\ Len(new.observations) = Len(old.observations) + 1
         /\ SubSeq(new.observations, 1, Len(old.observations)) = old.observations
         /\ o.text = b.observation /\ o.observed_at = now
         /\ o.access_count = 0 /\ o.relevance = 1
         /\ new.updated = now
         /\ new = [old EXCEPT !.observations = new.observations, !.updated = now]

\* an observation has been added, thirty days after the start of the run, to
\* an entity that holds earlier observations and was last updated before
C14_Witness ==
  /\ Admitted("rest_observation") /\ opOut.kind = "OK"
  /\ now > SeqT0
  /\ Len(GraphBefore.entities[EntityIndex(GraphBefore, opReq.body.name)].observations) > 0

----------------------------------------------------------------------------
\* Claims about the reads

ObsOf(graph) == FlatObs(graph.entities)

C16_ReadsTrackAccess ==
  (opReq.kind = "rest_get_entity" /\ opOut.kind = "OK") =>
    LET i == EntityIndex(GraphBefore, opReq.body.name)
        old == GraphBefore.entities[i].observations
        new == Stored.entities[i].observations IN
    \A k \in 1..Len(old) :
      ~isExpired(old[k], now) =>
        new[k].access_count = old[k].access_count + 1 /\ new[k].last_accessed = now

\* the item (observation or relation) has no expires_at or one after now
Live(item) == item.expires_at = NoTime \/ item.expires_at > now

\* C17: a Get Entity of a name no entity has ends with NotFound; otherwise it
\* returns, in stored order, the observations of the entity that are not
\* expired at now and the relations not expired at now that the entity is
\* source or target of, outgoing with the target as peer when it is the
\* source, incoming with the source as peer otherwise.
C17_GetEntity ==
  Admitted("rest_get_entity") =>
    LET g == GraphBefore
        name == opReq.body.name IN
    IF name \notin EntityNames(g)
    THEN opOut.kind = "NotFound"
    ELSE LET e == g.entities[EntityIndex(g, name)]
             obs == SelectSeq(e.observations, Live)
             rels == SelectSeq(g.relations,
                               LAMBDA r : (r.source = name \/ r.target = name) /\ Live(r))
             view == opOut.view IN
         /\ opOut.kind = "OK"
         /\ view.name = name
         /\ Len(view.observations) = Len(obs)
         /\ \A k \in 1..Len(obs) :
              /\ view.observations[k].text = obs[k].text
              /\ view.observations[k].observed_at = obs[k].observed_at
         /\ Len(view.relations) = Len(rels)
         /\ \A k \in 1..Len(rels) :
              /\ view.relations[k].relation = rels[k].relation
              /\ IF rels[k].source = name
                 THEN /\ view.relations[k].direction = "outgoing"
                      /\ view.relations[k].entity = rels[k].target
                 ELSE /\ view.relations[k].direction = "incoming"
                      /\ view.relations[k].entity = rels[k].source

\* a Get Entity has returned an outgoing and an incoming relation and fewer
\* observations than the entity holds
C17_Witness ==
  /\ Admitted("rest_get_entity") /\ opOut.kind = "OK"
  /\ \E k \in 1..Len(opOut.view.relations) : opOut.view.relations[k].direction = "outgoing"
  /\ \E k \in 1..Len(opOut.view.relations) : opOut.view.relations[k].direction = "incoming"
  /\ Len(opOut.view.observations)
       < Len(Stored.entities[EntityIndex(Stored, opReq.body.name)].observations)

\* the texts of the observations a read response shows
ShownTexts(q, graph, t) ==
  LET reply == Read(q, graph, t)
      texts(observations) == {observations[k].text : k \in 1..Len(observations)} IN
  IF reply.kind # "OK" THEN {}
  ELSE CASE q.kind \in {"rest_get_entity", "mcp_read_entity"} -> texts(reply.view.observations)
         [] q.kind = "rest_search" ->
              UNION {texts(reply.view.results[i].entity.observations) :
                       i \in 1..Len(reply.view.results)}
         [] q.kind = "rest_graph" ->
              UNION {texts(reply.view.entities[i].observations) :
                       i \in 1..Len(reply.view.entities)}
         [] q.kind = "mcp_search_nodes" ->
              IF Len(searchNodes(graph, q.body.query, t)) = 0 THEN {}
              ELSE UNION {texts(reply.view[i].observations) : i \in 1..Len(reply.view)}
         [] q.kind = "mcp_read_graph" ->
              UNION {{reply.view.lines[i].observations[k] :
                        k \in 1..Len(reply.view.lines[i].observations)} :
                       i \in 1..Len(reply.view.lines)}
         [] OTHER -> {}

\* the read requests a caller can make about the stored entities
ReadInterface ==
  ReadRequests \cup
  {[kind |-> k, ip |-> OtherIP, body |-> ReadBody(n, "")] :
     k \in {"rest_get_entity", "mcp_read_entity"}, n \in EntityNames(Stored)}

\* C18: a stored observation that is expired at now is not shown by the
\* default Get Entity of its entity, stays in the document over every
\* request, and is shown by some read a caller can make.
C18_ExpiredRecoverable ==
  /\ \A i \in 1..Len(Stored.entities) :
       \A k \in 1..Len(Stored.entities[i].observations) :
         LET o == Stored.entities[i].observations[k] IN
         (o.expires_at # NoTime /\ o.expires_at <= now) =>
           /\ \A j \in 1..Len(handleEntity(Stored, Stored.entities[i].name, now).view.observations) :
                handleEntity(Stored, Stored.entities[i].name, now).view.observations[j] .expires_at
                  # o.expires_at
           /\ \E q \in ReadInterface : o.text \in ShownTexts(q, Stored, now)
  /\ opReq.kind # "none" =>
       \A i \in 1..Len(GraphBefore.entities) :
         \A k \in 1..Len(GraphBefore.entities[i].observations) :
           Stored.entities[i].observations[k] = GraphBefore.entities[i].observations[k]

\* the part of C18 the worker keeps: no read a caller can make shows an
\* observation expired at now, and every request keeps the stored
\* observations
C18_ExpiredHiddenAndKept ==
  /\ \A i \in 1..Len(Stored.entities) :
       \A k \in 1..Len(Stored.entities[i].observations) :
         LET o == Stored.entities[i].observations[k] IN
         (o.expires_at # NoTime /\ o.expires_at <= now /\
            \A j \in 1..Len(ObsOf(Stored)) :
              ObsOf(Stored)[j].text = o.text => ~Live(ObsOf(Stored)[j])) =>
           \A q \in ReadInterface : o.text \notin ShownTexts(q, Stored, now)
  /\ opReq.kind # "none" =>
       \A i \in 1..Len(GraphBefore.entities) :
         \A k \in 1..Len(GraphBefore.entities[i].observations) :
           Stored.entities[i].observations[k] = GraphBefore.entities[i].observations[k]

\* an entity's name, type and the texts of its observations not expired at
\* now, lower-cased
LiveText(e) ==
  LET obs == SelectSeq(e.observations, Live) IN
  toLowerCase(JoinSpace(<<e.name, e.entityType>> \o [k \in 1..Len(obs) |-> obs[k].text]))

\* C19: a search returns, once each, exactly the entities for which the
\* lower-cased query is a substring of the lower-cased name, type and texts of
\* the observations not expired at now; so an entity that holds the query in
\* expired observations only is not returned, and one that holds it in name
\* or type is returned even with all observations expired.
C19_SearchMatches ==
  Admitted("rest_search") =>
    LET g == GraphBefore
        results == opOut.view.results
        found == {results[i].entity.name : i \in 1..Len(results)} IN
    /\ opOut.kind = "OK"
    /\ found = {g.entities[i].name : i \in
                  {i \in 1..Len(g.entities) :
                     includes(LiveText(g.entities[i]), toLowerCase(opReq.body.query))}}
    /\ Cardinality(found) = Len(results)
    /\ opOut.view.count = Len(results)

\* a search has left out an entity that holds the query in an expired
\* observation only, and has returned one, by its type in another case, whose
\* observations are all expired
C19_Witness ==
  /\ Admitted("rest_search")
  /\ \E i \in 1..Len(GraphBefore.entities) :
       LET e == GraphBefore.entities[i] IN
       /\ \E k \in 1..Len(e.observations) :
            ~Live(e.observations[k]) /\ e.observations[k].text = opReq.body.query
       /\ \A r \in 1..Len(opOut.view.results) : opOut.view.results[r].entity.name # e.name
  /\ \E r \in 1..Len(opOut.view.results) :
       LET e == GraphBefore.entities[EntityIndex(GraphBefore, opOut.view.results[r].entity.name)] IN
       /\ Len(e.observations) > 0
       /\ \A k \in 1..Len(e.observations) : ~Live(e.observations[k])
       /\ ~includes(e.entityType, opReq.body.query)

\* the mean decay score at now of the observations of entity i of the graph
\* before that are not expired
MeanScore(i) ==
  LET obs == SelectSeq(GraphBefore.entities[i].observations, Live) IN
  AvgScore([k \in 1..Len(obs) |-> decayScore(obs[k], now)])

\* C20: in the results of a search an entity of higher mean decay score
\* comes before one of lower score, and entities of equal score come in the
\* order of the document.
C20_SearchOrder ==
  Admitted("rest_search") =>
    LET results == opOut.view.results
        at(r) == EntityIndex(GraphBefore, results[r].entity.name) IN
    \A r1, r2 \in 1..Len(results) :
      r1 < r2 =>
        /\ ~ScoreLess(MeanScore(at(r1)), MeanScore(at(r2)))
        /\ ~ScoreLess(MeanScore(at(r2)), MeanScore(at(r1))) => at(r1) < at(r2)

\* a search has returned a later entity of the document first and two
\* entities of equal score after it
C20_Witness ==
  /\ Admitted("rest_search") /\ Len(opOut.view.results) >= 3
  /\ LET results == opOut.view.results
         at(r) == EntityIndex(GraphBefore, results[r].entity.name) IN
     /\ at(1) > at(2)
     /\ ScoreLess(MeanScore(at(2)), MeanScore(at(1)))
     /\ ~ScoreLess(MeanScore(at(3)), MeanScore(at(2)))

\* the sum of the values of a function of naturals
RECURSIVE SumValues(_)
SumValues(f) ==
  IF DOMAIN f = {} THEN 0
  ELSE LET d == CHOOSE d \in DOMAIN f : TRUE IN
       f[d] + SumValues([e \in DOMAIN f \ {d} |-> f[e]])

\* the number of items of a sequence that are not expired at now
LiveCount(items) == Cardinality({k \in 1..Len(items) : Live(items[k])})

\* what C21 asks of the counts a stats response reports about the graph
StatsCounts(view, g) ==
  /\ view.entities = Len(g.entities)
  /\ "expired" \in DOMAIN view.observations
  /\ view.observations.active = LiveCount(ObsOf(g))
  /\ view.observations.active + view.observations.expired = Len(ObsOf(g))
  /\ view.relations = LiveCount(g.relations)
  /\ \A ty \in DOMAIN view.types :
       view.types[ty] = Cardinality({i \in 1..Len(g.entities) : g.entities[i].entityType = ty})
  /\ SumValues(view.types) = Len(g.entities)

\* C21: the stats of REST /stats and of the MCP tool graph_stats report the
\* number of entities, the observations not expired and expired at now, which
\* together are all stored observations, the number of relations not expired
\* at now, and a count per entityType that sums to the number of entities.
C21_Stats ==
  opReq.kind \in {"rest_stats", "mcp_graph_stats"} => StatsCounts(opOut.view, GraphBefore)

\* the part of C21 the worker keeps: the stats of REST /stats
C21_RestStats ==
  opReq.kind = "rest_stats" => StatsCounts(opOut.view, GraphBefore)

\* the class and the counter the latest request is charged to
OwnClass == IF opReq.kind \in RateLimitedKinds THEN SeqRateClass(opReq.kind) ELSE ""

OwnKey == <<"rate", opReq.ip, OwnClass>>

\* the response carries the limit of the class and what is left of it
CarriesQuota ==
  /\ {"X-RateLimit-Limit", "X-RateLimit-Remaining"} \subseteq DOMAIN opOut.headers
  /\ opOut.headers["X-RateLimit-Limit"] = RATE_LIMITS(OwnClass)
  /\ opOut.headers["X-RateLimit-Remaining"]
       = RATE_LIMITS(OwnClass) - kvRate[OwnKey].count

\* C22: every response to a Create Entity, Add Observation, Create Relation,
\* Get Entity or Search that has consumed quota carries the limit and the
\* remaining quota of its class, the InvalidArgument, NotFound and Conflict
\* responses too.
C22_QuotaOnEveryResponse ==
  (opReq.kind \in HeaderKinds /\ opOut.rate.allowed) => CarriesQuota

\* the part of C22 the worker keeps: the responses that end a handler with
\* success carry the limit and the remaining quota
C22_QuotaOnSuccess ==
  (opReq.kind \in HeaderKinds /\ opOut.rate.allowed /\ opOut.kind \in {"Created", "OK"})
    => CarriesQuota

\* the payload of a denied call: error, limit and a retry guidance of the
\* window's hour
RetryPayload ==
  /\ {"error", "limit", "retryAfter"} \subseteq DOMAIN opOut.view
  /\ opOut.view.retryAfter = "1 hour"
  /\ opOut.view.limit = RATE_LIMITS(OwnClass)

\* C23: a call the rate limiter denies, to create entity, add observation,
\* create relation, get entity, search, register-agent, attest or verify, is
\* answered 429 with error, limit and retryAfter, the guidance being one hour.
C23_DeniedPayload ==
  (opReq.kind \in RateLimitedKinds /\ opOut.kind = "RateLimited") => RetryPayload

\* the part of C23 the worker keeps: the denied calls to the graph handlers
\* and register-agent
C23_DeniedGraphCalls ==
  (opReq.kind \in RateLimitedKinds \ AttestKinds /\ opOut.kind = "RateLimited")
    => RetryPayload /\ opOut.headers = RetryHeaders

\* C24: a request changes no counter but the one of its caller and class,
\* the check decides on that counter alone, a request whose handler calls
\* no check changes no counter, and a denied check leaves the graph document
\* as it was.
C24_CountersIndependent ==
  opReq.kind # "none" =>
    LET before == kvBefore.rate
        count == IF OwnKey \in DOMAIN before THEN before[OwnKey].count ELSE 0
        limit == RATE_LIMITS(OwnClass) IN
    /\ DOMAIN before \ {OwnKey} = DOMAIN kvRate \ {OwnKey}
    /\ \A k \in DOMAIN before \ {OwnKey} : kvRate[k] = before[k]
    /\ opReq.kind \notin RateLimitedKinds => kvRate = before
    /\ opOut.rate.returned =>
         /\ opOut.rate.allowed <=> count < limit
         /\ opOut.rate.allowed => kvRate[OwnKey].count = count + 1
         /\ ~opOut.rate.allowed => kvRate = before /\ kvGraph = kvBefore.graph

\* a request has raised its counter in a store that holds a counter of the
\* same caller in another class and one of another caller in the same class
C24_Witness ==
  /\ opReq.kind \in RateLimitedKinds /\ opOut.rate.allowed
  /\ OwnKey \notin DOMAIN kvBefore.rate /\ kvRate[OwnKey].count = 1
  /\ \E k \in DOMAIN kvRate : k[2] = opReq.ip /\ k[3] # OwnKey[3]
  /\ \E k \in DOMAIN kvRate : k[2] # opReq.ip /\ k[3] = OwnKey[3]

\* the fields of a stored observation
ObservationShape ==
  {"text", "observed_at", "expires_at", "last_accessed", "access_count", "relevance"}

\* C25: every observation of the persisted document, stored by Create
\* Entity, Add Observation, the MCP tools create_entity and add_observation
\* or register-agent, has the six fields of an observation, an observed_at,
\* no last_accessed, access_count 0 and relevance 1.0, whatever the caller
\* supplied.
C25_ObservationShape ==
  \A k \in 1..Len(ObsOf(Stored)) :
    LET o == ObsOf(Stored)[k] IN
    /\ DOMAIN o = ObservationShape
    /\ o.observed_at # NoTime
    /\ o.last_accessed = NoTime
    /\ o.access_count = 0
    /\ o.relevance = 1

\* the document holds, stored by requests of this run, an observation given
\* as a string and one given as an object that supplied the bookkeeping fields
C25_Witness ==
  \E i \in 1..Len(Stored.entities) :
    /\ Stored.entities[i].name = "C"
    /\ \E k \in 1..Len(Stored.entities[i].observations) :
         Stored.entities[i].observations[k].text = "x"
    /\ \E k \in 1..Len(Stored.entities[i].observations) :
         Stored.entities[i].observations[k].text = "w"
    /\ \E k \in 1..Len(Stored.entities[i].observations) :
         Stored.entities[i].observations[k].text = "y"

\* the age in hours of the observation of the decay run
AgeHours == Hours(now - (IF opReq.observed_at = NoTime THEN now ELSE opReq.observed_at))

C27_StrictlyDecreasing ==
  kvBefore # <<>> => opOut.score < kvBefore[1].score

\* C27: with the other fields fixed, the score of the older observation is
\* never larger, and it is strictly smaller when the score of the younger
\* one is above MIN_RELEVANCE.
C27_DecreasingAboveMin ==
  kvBefore # <<>> =>
    /\ opOut.score <= kvBefore[1].score
    /\ kvBefore[1].score > MIN_RELEVANCE => opOut.score < kvBefore[1].score

\* an accessed observation has been scored at two ages, both scores above
\* MIN_RELEVANCE
C27_Witness ==
  /\ kvBefore # <<>> /\ opReq.last_accessed # NoTime /\ opReq.access_count > 0
  /\ opOut.score > MIN_RELEVANCE
  /\ opOut.score < kvBefore[1].score

\* the observation of the decay run has access_count 0, no last_accessed and
\* relevance 1.0
Baseline == opReq.access_count = 0 /\ opReq.last_accessed = NoTime /\ opReq.relevance = 1

\* C28 as stated: the score of a baseline observation is the decay factor
\* 0.5^(ageDays/30) of its age.
C28_PureDecay == (opOut.scored /\ Baseline) => opOut.score = Decay(AgeHours)

\* C28: the score of a baseline observation is the decay factor of its age
\* where that is at least MIN_RELEVANCE, and MIN_RELEVANCE beyond; it is 1.0
\* at age 0, also without observed_at, and 0.5 at an age of 30 days.
C28_Baseline ==
  (opOut.scored /\ Baseline) =>
    /\ Decay(AgeHours) >= MIN_RELEVANCE => opOut.score = Decay(AgeHours)
    /\ Decay(AgeHours) < MIN_RELEVANCE => opOut.score = MIN_RELEVANCE
    /\ (opReq.observed_at \in {NoTime, now}) => opOut.score = One
    /\ opReq.observed_at = now - DECAY_HALF_LIFE_DAYS * DaySeconds => 2 * opOut.score = One

\* a baseline observation without observed_at has been scored
C28_Witness == opOut.scored /\ Baseline /\ opReq.observed_at = NoTime

\* the item has an expires_at that is not after the instant t
Lapsed(item, t) == item.expires_at # NoTime /\ item.expires_at <= t

\* at now: a stored observation is expired exactly when it has an expires_at
\* not after now, a stored relation is active exactly when it has none or one
\* after now, and the full-graph read shows what is not expired
ExpiryAtNow ==
  /\ \A k \in 1..Len(ObsOf(Stored)) :
       isExpired(ObsOf(Stored)[k], now) <=> Lapsed(ObsOf(Stored)[k], now)
  /\ \A k \in 1..Len(Stored.relations) :
       RelActive(Stored.relations[k], now) <=> ~Lapsed(Stored.relations[k], now)
  /\ opReq.kind = "rest_graph" =>
       /\ \A i \in 1..Len(GraphBefore.entities) :
            Len(opOut.view.entities[i].observations)
              = Cardinality({k \in 1..Len(GraphBefore.entities[i].observations) :
                               ~Lapsed(GraphBefore.entities[i].observations[k], now)})
       /\ Len(opOut.view.relations)
            = Cardinality({k \in 1..Len(GraphBefore.relations) :
                             ~Lapsed(GraphBefore.relations[k], now)})

\* what is expired stays expired over a step
StaysExpired ==
  /\ \A i \in 1..Len(Stored.entities) :
       \A k \in 1..Len(Stored.entities[i].observations) :
         isExpired(Stored.entities[i].observations[k], now)
           => isExpired(Stored'.entities[i].observations[k], now')
  /\ \A k \in 1..Len(Stored.relations) :
       ~RelActive(Stored.relations[k], now) => ~RelActive(Stored'.relations[k], now')

\* C29: an observation is expired at now exactly when it has an expires_at
\* and expires_at <= now, so one whose expires_at is now is already left out
\* of the views; a relation is active only while it has no expires_at or
\* expires_at > now; and what is expired at an instant is expired at every
\* later instant.
C29_ExpiryBoundary == []ExpiryAtNow /\ [][StaysExpired]_vars

\* the full graph has been read at the very instant an observation and a
\* relation expire, and shows neither
C29_Witness ==
  /\ opReq.kind = "rest_graph"
  /\ \E k \in 1..Len(ObsOf(Stored)) : ObsOf(Stored)[k].expires_at = now
  /\ \E k \in 1..Len(Stored.relations) : Stored.relations[k].expires_at = now
  /\ Len(opOut.view.relations) < Len(Stored.relations)
  /\ \E i \in 1..Len(Stored.entities) :
       Len(opOut.view.entities[i].observations) < Len(Stored.entities[i].observations)

\* the latest request is a register-agent that went through
Registered ==
  opReq.kind = "register_agent" /\ opOut.rate.allowed /\ opOut.kind = "OK"

\* sequence a is the beginning of sequence b
Prefix(a, b) == Len(a) <= Len(b) /\ SubSeq(b, 1, Len(a)) = a

-----------------------------------------------------------------------------
\* Claims about attestation signatures

\* the private keys that are keys of the curve
ValidKeyHexes == {key \in PrivateKeyHexes : hexToBytes(key) \in SecretKeys}

\* an attestation has been issued
Attests == kvBefore.privateKey # ""

\* the observation and signature at hand are the ones /attest returned
Untampered ==
  /\ Attests
  /\ opReq.observation = kvBefore.observation
  /\ opReq.signature = kvBefore.signature

VerifiedSig == opOut.op = "verify" /\ opOut.status = 200

\* C31: verifying an observation with the signature signObservation made of
\* it, under any key, gives valid = true, error = null and the signature's
\* public_key as the signer; so signatures of two keys on one observation
\* both verify.
C31_SignVerifyRoundTrip ==
  /\ \A key \in ValidKeyHexes :
       LET signature == signObservation(opReq.observation, key) IN
         verifySignature(opReq.observation, signature) =
           [valid |-> TRUE, signer |-> signature.public_key, error |-> Null]
  /\ VerifiedSig /\ Untampered =>
       /\ opOut.valid
       /\ opOut.error = Null
       /\ opOut.signer = kvBefore.signature.public_key

\* /verify has accepted the attestation the second key (written with no 0x)
\* made, whose address is not the first key's
C31_Witness ==
  /\ VerifiedSig /\ Untampered /\ opOut.valid
  /\ kvBefore.privateKey = "0a"
  /\ opOut.signer = AddressOf("0a")
  /\ opOut.signer # AddressOf("0x01")
  /\ verifySignature(opReq.observation, signObservation(opReq.observation, "0x01")).valid

\* verifySignature has rejected: no signer, and an error that says why
Rejected == ~opOut.valid /\ opOut.signer = Null /\ opOut.error # Null

\* C32: an attestation's signature presented with an observation that
\* differs from the signed one in any of the six fields is rejected with
\* valid = false, an error and no signer; so are a signature without
\* signature_hex and one with another message_hash.
C32_TamperDetected ==
  /\ VerifiedSig /\ Attests /\ opReq.observation # kvBefore.observation
       /\ opReq.signature = kvBefore.signature => Rejected
  /\ VerifiedSig /\ Attests /\ opReq.signature.signature_hex = Undefined => Rejected
  /\ VerifiedSig /\ Attests
       /\ opReq.signature.message_hash # kvBefore.signature.message_hash => Rejected

\* the part of C32 about the signature object alone
C32_MalformedRejected ==
  /\ VerifiedSig /\ Attests /\ opReq.signature.signature_hex = Undefined => Rejected
  /\ VerifiedSig /\ Attests
       /\ opReq.signature.message_hash # kvBefore.signature.message_hash =>
         Rejected

\* /verify has accepted an attestation's signature for an observation whose
\* entity_id and attribute are not the signed ones
C32_SeparatorShift ==
  /\ VerifiedSig /\ Attests /\ opOut.valid
  /\ opReq.signature = kvBefore.signature
  /\ opReq.observation.entity_id # kvBefore.observation.entity_id
  /\ opReq.observation.attribute # kvBefore.observation.attribute

\* C38: whenever /verify reports valid = true, the signer it reports is the
\* address of public_key_full, the key the signature was verified under; a
\* signature whose public_key was replaced by another address is not
\* reported valid with that address, so authorized is not obtained for an
\* address whose key did not sign.
C38_SignerBinding ==
  VerifiedSig /\ opOut.valid =>
    opOut.signer = publicKeyToAddress(hexToBytes(opReq.signature.public_key_full))

\* the part of C38 that holds: a valid result names signature.public_key,
\* and the signature was made by the key of public_key_full
C38_SignerIsClaimedAddress ==
  VerifiedSig /\ opOut.valid =>
    /\ opOut.signer = opReq.signature.public_key
    /\ \E key \in SecretKeys :
         /\ opReq.signature.public_key_full = bytesToHex(secp_getPublicKey(key))
         /\ hexToBytes(opReq.signature.signature_hex) =
              secp_signAsync(hexToBytes(keccak256(createSignableMessage(opReq.observation))),
                             key)

\* /verify has reported authorized for a source address whose key made no
\* signature
C38_AuthorizedWithoutKey ==
  /\ VerifiedSig /\ opOut.valid /\ opOut.authorized
  /\ kvBefore.privateKey = "0a"
  /\ opReq.observation.source.s = AddressOf("0x01")
  /\ opOut.signer = AddressOf("0x01")

\* each field holds a value of the same JavaScript type in both observations
SameTypes(one, other) ==
  \A field \in AttestedFields : one[field].type = other[field].type

\* C39: createSignableMessage is one-to-one on the six fields, values with
\* the separator | included: observations that differ have different
\* messages, so the signature of one is not valid for the other. (Stated for
\* fields of equal types: a number and the string of its digits are not
\* told apart either.)
C39_MessageInjective ==
  VerifiedSig /\ Attests /\ opReq.observation # kvBefore.observation
    /\ SameTypes(opReq.observation, kvBefore.observation) =>
    /\ createSignableMessage(opReq.observation) #
         createSignableMessage(kvBefore.observation)
    /\ keccak256(createSignableMessage(opReq.observation)) #
         kvBefore.signature.message_hash

\* the part of C39 that holds: observations of separator-free strings that
\* differ in some field's text have different messages
SeparatorFree(observation) ==
  \A field \in AttestedFields : ~includes(TemplateText(observation[field]), "|")

C39_InjectiveOnTexts ==
  VerifiedSig /\ Attests /\ SeparatorFree(opReq.observation)
    /\ SeparatorFree(kvBefore.observation)
    /\ (\E field \in AttestedFields :
          TemplateText(opReq.observation[field]) #
            TemplateText(kvBefore.observation[field])) =>
      createSignableMessage(opReq.observation) #
        createSignableMessage(kvBefore.observation)

-----------------------------------------------------------------------------
\* Claims about the limiter under concurrency and about quota consumption

\* the requests in flight or answered that checkRateLimit allowed for the
\* ordinary caller in the class
AllowedSlots(class) ==
  {r \in Slots : /\ rate[r].returned /\ rate[r].allowed
                 /\ req[r].ip = OtherIP
                 /\ RateClass(req[r].kind) = class}

\* C33: under any interleaving of concurrent checkRateLimit calls of one
\* ordinary identity for one class with limit L, at most L calls are allowed
\* while one counter lives: with L - 1 calls allowed earlier in the window,
\* at most one more.
C33_AtMostLimitAllowed ==
  \A class \in {"entities", "observations", "relations"} :
    EarlierCounters[RateKey(OtherIP, class)].count + Cardinality(AllowedSlots(class))
      <= RATE_LIMITS(class)

\* every stored counter is between 1 and the limit of its class
CountersInRange ==
  \A key \in DOMAIN kvRate : kvRate[key].count \in 1..RATE_LIMITS(key[3])

\* C34 as stated: every stored counter is between 1 and the limit of its
\* class, and every allowed result has 0 <= remaining <= limit - 1.
C34_EveryAllowedResult ==
  /\ CountersInRange
  /\ \A r \in Slots :
       rate[r].returned /\ rate[r].allowed =>
         rate[r].remaining \in 0..(rate[r].limit - 1)

\* what the put of request r, which has read its counter, writes and returns
PendingPut(r) ==
  checkRateLimitPut(TRUE, kvRate, req[r].ip, RateClass(req[r].kind), seen[r], now)

\* two calls in a row of an ordinary caller for the class, from this store
TwoCalls(operation) ==
  LET first == checkRateLimit(kvRate, OtherIP, operation, now) IN
    <<first.result, checkRateLimit(first.store, OtherIP, operation, now).result>>

\* C34 for the calls that count: under any interleaving every stored counter
\* is between 1 and the limit of its class; every allowed result of a caller
\* other than the reserved identity has 0 <= remaining <= limit - 1, and
\* remaining = limit - the counter value its call writes; of two allowed
\* calls in a row the second has remaining one less than the first.
C34_CountedCalls ==
  /\ CountersInRange
  /\ \A r \in Slots :
       rate[r].returned /\ rate[r].allowed /\ req[r].ip # OracIP =>
         rate[r].remaining \in 0..(rate[r].limit - 1)
  /\ \A r \in Slots :
       pc[r] = "rl_put" =>
         LET put == PendingPut(r) IN
           /\ put.result.allowed
           /\ put.result.remaining \in 0..(put.result.limit - 1)
           /\ put.result.remaining =
                put.result.limit
                  - put.store[RateKey(req[r].ip, RateClass(req[r].kind))].count
  /\ \A operation \in Operations :
       LET two == TwoCalls(operation) IN
         two[1].allowed /\ two[2].allowed =>
           two[2].remaining = two[1].remaining - 1

\* two overlapping calls of the ordinary caller were both allowed with
\* remaining 0, the counter stands at the limit, and two calls in a row for
\* a class with no counter would both be allowed
C34_Witness ==
  /\ Cardinality(AllowedSlots("entities")) = 2
  /\ \A r \in Slots : rate[r].remaining = 0
  /\ kvRate[RateKey(OtherIP, "entities")].count = LimitEntities
  /\ TwoCalls("reads")[2].allowed

\* the step is a call of checkRateLimit that was denied
DeniedCall == streak' = streak + 1 /\ rlLast'.returned /\ ~rlLast'.allowed

\* C35: a denied call of checkRateLimit leaves the store as it was: the
\* counter keeps its value and the instant at which it expires, so denied
\* calls do not move the instant at which the caller is allowed again.
C35_DeniedChangesNothing == [][DeniedCall => kvRate' = kvRate]_vars

\* two calls have been denied after the clock moved within the window, and
\* the counter still expires an hour after the last permitted call
C35_Witness ==
  /\ streak = RATE_LIMITS(rlOp) + 2
  /\ ~rlLast.allowed
  /\ now > winStart + 1
  /\ kvRate[RateKey(OtherIP, rlOp)] = [count |-> RATE_LIMITS(rlOp), exp |-> winStart + RateTtl]

\* the latest request failed after the rate limiter had let it pass
FailedAfterRate == opOut.kind \in {"InvalidArgument", "NotFound", "Conflict"}

\* the store after the request has been served n more times
RECURSIVE Repeated(_, _, _)
Repeated(q, n, store) ==
  IF n <= 0 THEN store
  ELSE Repeated(q, n - 1, Serve(q, store, kvGraph, now).kvRate)

\* the store the repetitions start from: the store as it is, or, when more
\* than two calls are left, with the caller's counter where further calls of
\* the window bring it, two short of the limit
RunStart ==
  IF RATE_LIMITS(OwnClass) - kvRate[OwnKey].count <= 2
  THEN kvRate
  ELSE [kvRate EXCEPT ![OwnKey].count = RATE_LIMITS(OwnClass) - 2]

-----------------------------------------------------------------------------
\* Claims about the MCP tools beside the REST operations

\* the REST operation an MCP tool stands beside
RestTwinKind(kind) ==
  CASE kind = "mcp_create_entity"   -> "rest_entity"
    [] kind = "mcp_add_observation" -> "rest_observation"
    [] kind = "mcp_create_relation" -> "rest_relation"

\* the REST operation run with the arguments of the tool call, from the
\* check of its required fields on
RestTwin(q, graph, t) ==
  LET twin == [q EXCEPT !.kind = RestTwinKind(q.kind)] IN
    IF ~ValidBody(twin) THEN Outcome("InvalidArgument", FALSE, graph)
    ELSE Handle(twin, graph, t)

StringObservations(q) ==
  \A i \in 1..Len(q.body.observations) : q.body.observations[i].str

\* request r, an MCP tool call, gets the document from loadGraph
McpLoads(r) ==
  /\ pc[r] = "load" /\ req[r].kind \in McpKinds
  /\ pc'[r] \in {"save", "done"} /\ resp'[r] # "StoreUnavailable"
  /\ StringObservations(req[r])

\* C37: an MCP create_entity, add_observation or create_relation and the
\* REST operation with the same arguments (string observations), run from
\* the same document, both accept or both reject, and leave the same
\* entities, observations and relations.
C37_McpEquivalent ==
  [][\A r \in Slots :
       McpLoads(r) =>
         LET graph == loadGraph(kvGraph)
             mcp   == Handle(req[r], graph, now)
             rest  == RestTwin(req[r], graph, now) IN
           /\ mcp.save = rest.save
           /\ mcp.graph = rest.graph]_vars

\* the part of C37 that holds: the same, but for a create_relation of a triple
\* the document holds
C37_EquivalentButDuplicates ==
  [][\A r \in Slots :
       (McpLoads(r) /\ ~(/\ req[r].kind = "mcp_create_relation"
                         /\ Triple(req[r].body) \in Triples(loadGraph(kvGraph)))) =>
         LET graph == loadGraph(kvGraph)
             mcp   == Handle(req[r], graph, now)
             rest  == RestTwin(req[r], graph, now) IN
           /\ mcp.save = rest.save
           /\ mcp.graph = rest.graph]_vars

====
